---- MODULE Spec2Model ----
(***************************************************************************)
(* A model of biblio: the pluggable registry (biblio/plugs.py), the        *)
(* magic-byte identifier engine (biblio/identifiers/__init__.py), the text *)
(* classifier (biblio/identifiers/text.py) and the Palm database header    *)
(* parser (biblio/parsers/pdb.py).                                         *)
(*                                                                         *)
(* Bytes are the integers 0..255.  A file is a sequence of bytes; python's *)
(* 0-based index i is the TLA+ index i+1.  The builtin identifier table of *)
(* the source addresses up to 4115 bytes of a file; the model keeps one    *)
(* program of each shape of that table, in the table's order, with the     *)
(* literals cut down to the bytes of Alphabet and the 4096-byte windows    *)
(* cut down to Window.                                                     *)
(***************************************************************************)
EXTENDS Integers, Sequences, FiniteSets, TLC

VARIABLES
    extra_pluggables,      \* plugs.py:36  subsystem -> ordered entries
    builtin_pluggables,    \* plugs.py:37
    max_data_buffer_size,  \* identifiers/__init__.py:38
    history,               \* the add_pluggable calls made so far (ghost)
    ebook,                 \* metadata.py:78  the EbookMetadata record in hand, key -> value
    call                   \* the operation that ran last, its inputs and outcome

vars == <<extra_pluggables, builtin_pluggables, max_data_buffer_size, history, ebook, call>>

\* ------------------------------------------------------------------ bounds

\* the search / regex window of the table programs (4096 in the source)
Window == 2
\* how many bytes a file may hold beyond the builtin table's prefix buffer
MaxTail == 1
\* how many add_pluggable calls a behaviour makes after start-up
MaxAdds == 2
\* how many identifier programs a user registers before identifying files
MaxUserIdentifiers == 1
\* the largest num_records, and one less than the most record entries, of a PDB file
MaxRecords == 2

\* ------------------------------------------------------------ python helpers

Min(a, b) == IF a < b THEN a ELSE b
Max(a, b) == IF a > b THEN a ELSE b

None == "None"

\* how python clamps one bound of s[a:b] for a sequence of length n
SliceIndex(i, n) == IF i < 0 THEN Max(n + i, 0) ELSE Min(i, n)

\* s[a:b]
PySlice(s, a, b) ==
    LET lo == SliceIndex(a, Len(s))
        hi == SliceIndex(b, Len(s))
    IN  IF lo >= hi THEN << >> ELSE SubSeq(s, lo + 1, hi)

\* s[a:]
PyTail(s, a) == PySlice(s, a, Len(s))

\* s.find(sub, a, b): the lowest index of sub inside s[a:b], or -1
PyFind(s, sub, a, b) ==
    LET lo == SliceIndex(a, Len(s))
        hi == SliceIndex(b, Len(s))
        hits == { i \in lo..(hi - Len(sub)) : SubSeq(s, i + 1, i + Len(sub)) = sub }
    IN  IF hits = {} THEN -1 ELSE CHOOSE i \in hits : \A j \in hits : i <= j

\* ------------------------------------------------------------ text classifier

\* text.py:24-40
text_chars(c) ==
    IF c \in {7, 8, 9, 10, 12, 13, 27} THEN 1
    ELSE IF c < 32 THEN 0
    ELSE IF c < 127 THEN 1
    ELSE IF c = 127 THEN 0
    ELSE IF c = 133 THEN 1
    ELSE IF c < 160 THEN 3
    ELSE 2

\* c & mask, for a mask of one bit
BitSet(c, mask) == (c \div mask) % 2 = 1

\* text.py:89-100: the number of continuation bytes a lead byte announces, -1 for 0xFE/0xFF
Following(c) ==
    IF ~BitSet(c, 32) THEN 1
    ELSE IF ~BitSet(c, 16) THEN 2
    ELSE IF ~BitSet(c, 8) THEN 3
    ELSE IF ~BitSet(c, 4) THEN 4
    ELSE IF ~BitSet(c, 2) THEN 5
    ELSE -1

\* a slip in text.py:104-105: a buffer that ends inside a sequence is taken
\* for invalid UTF-8
RECURSIVE ContinuationsNoTruncation(_, _, _, _)
ContinuationsNoTruncation(buffer, i, nn, following) ==
    IF nn >= following THEN i
    ELSE IF i + 1 >= Len(buffer) THEN -1
    ELSE LET c == buffer[i + 2]
         IN  IF ~BitSet(c, 128) \/ BitSet(c, 64) THEN -1
             ELSE ContinuationsNoTruncation(buffer, i + 1, nn + 1, following)

\* text.py:102-111: the inner loop; returns the index of the last continuation
\* byte, -1 when one is missing its 10 prefix, -2 when the buffer ends first
RECURSIVE Continuations(_, _, _, _)
Continuations(buffer, i, nn, following) ==
    IF nn >= following THEN i
    ELSE IF i + 1 >= Len(buffer) THEN -2
    ELSE LET c == buffer[i + 2]
         IN  IF ~BitSet(c, 128) \/ BitSet(c, 64) THEN -1
             ELSE Continuations(buffer, i + 1, nn + 1, following)

\* text.py:79-115: the outer loop from index i with the level seen so far
RECURSIVE Utf8From(_, _, _)
Utf8From(buffer, i, found_utf8_char) ==
    IF i >= Len(buffer) THEN found_utf8_char
    ELSE LET c == buffer[i + 1]
         IN  IF ~BitSet(c, 128)
             THEN IF text_chars(c) # 1 THEN 0
                  ELSE Utf8From(buffer, i + 1, found_utf8_char)
             ELSE IF ~BitSet(c, 64) THEN -1
             ELSE IF Following(c) = -1 THEN -1
             ELSE LET last == Continuations(buffer, i, 0, Following(c))
                  IN  IF last = -2 THEN found_utf8_char
                      ELSE IF last = -1 THEN -1
                      ELSE Utf8From(buffer, last + 1, 2)

\* text.py:67-115
looks_like_utf8(buffer) == Utf8From(buffer, 0, 1)

\* text.py:119-122
is_text(buff) == looks_like_utf8(buff) > 0

\* ------------------------------------------------------------ rule programs

\* the bytes the files and the literals of the table are made of:
\* NUL (never appears in text), '<' and 'P' (plain ASCII text)
Alphabet == {0, 60, 80}

\* an integer offset, or a string offset "+n" / "-n" (identifiers/__init__.py:157-166)
IntOff(n) == [rel |-> "", n |-> n]
StrOff(sign, n) == [rel |-> sign, n |-> n]

NoRegex == [pre |-> << >>, notc |-> 0, post |-> << >>]
NoVal == [lit |-> << >>, pack |-> "", vals |-> << >>, size |-> 0, re |-> NoRegex, fn |-> ""]

\* identifiers/__init__.py:168-201: the rule each builder call appends
StringRule(offset, value) == [off |-> offset, typ |-> "string", val |-> [NoVal EXCEPT !.lit = value]]
StructRule(offset, pack, values) ==
    [off |-> offset, typ |-> "struct", val |-> [NoVal EXCEPT !.pack = pack, !.vals = values]]
SearchRule(offset, searchsize, value) ==
    [off |-> offset, typ |-> "search", val |-> [NoVal EXCEPT !.size = searchsize, !.lit = value]]
RegexRule(offset, regexsize, value) ==
    [off |-> offset, typ |-> "regex", val |-> [NoVal EXCEPT !.size = regexsize, !.re = value]]
FuncRule(offset, func) == [off |-> offset, typ |-> "func", val |-> [NoVal EXCEPT !.fn = func]]

\* identifiers/__init__.py:145-155 and 206-207: the flags and rules of a built identifier
IdentifierBuilder(textonly, binaryonly, rules) ==
    [text |-> ~binaryonly, binary |-> ~textonly, rules |-> rules]
\* identifiers/__init__.py:219-220
ib(rules) == IdentifierBuilder(FALSE, TRUE, rules)
it(rules) == IdentifierBuilder(TRUE, FALSE, rules)

\* struct.calcsize for the pack descriptors the table uses
calcsize(pack) ==
    CASE pack = ">H" -> 2
      [] pack = "bb" -> 2
      [] pack = ">b" -> 1

SignedByte(b) == IF b >= 128 THEN b - 256 ELSE b

\* struct.unpack on a string of exactly calcsize(pack) bytes
unpack(pack, s) ==
    CASE pack = ">H" -> << s[1] * 256 + s[2] >>
      [] pack = "bb" -> << SignedByte(s[1]), SignedByte(s[2]) >>
      [] pack = ">b" -> << SignedByte(s[1]) >>

\* re.search(pattern, value).end(0) for a pattern  pre [^notc]+ post  (the shape of
\* the table's '<package[^>]+xmlns=...'), -1 when nothing matches: the leftmost
\* start wins and the class repetition is greedy
RegexSearchEnd(re, value) ==
    LET n == Len(value)
        a == Len(re.pre)
        b == Len(re.post)
        Ends(i) == { q \in (i + a + 1)..(n - b) :
                        /\ SubSeq(value, q + 1, q + b) = re.post
                        /\ \A k \in (i + a + 1)..q : value[k] # re.notc }
        starts == { i \in 0..(n - a) :
                        /\ SubSeq(value, i + 1, i + a) = re.pre
                        /\ Ends(i) # {} }
    IN  IF starts = {} THEN -1
        ELSE LET i == CHOOSE x \in starts : \A y \in starts : x <= y
                 q == CHOOSE x \in Ends(i) : \A y \in Ends(i) : x >= y
             IN  q + b

\* identifiers/__init__.py:48-54 and 84-90: the offset a rule resolves to
ResolveOffset(off, cpos) ==
    IF off.rel = "+" THEN cpos + off.n
    ELSE IF off.rel = "-" THEN cpos - off.n
    ELSE off.n

\* identifiers/__init__.py:46-66: the loop of _calc_identifier_sizes from rule i on;
\* have says whether minsz / maxsz are bound yet (a func rule binds neither)
RECURSIVE CalcSizesFrom(_, _, _, _, _, _)
CalcSizesFrom(rules, i, min_size, max_size, cpos, have) ==
    IF i > Len(rules) THEN [raised |-> FALSE, min_size |-> min_size, max_size |-> max_size]
    ELSE LET rule == rules[i]
             off == ResolveOffset(rule.off, cpos)
         IN  IF rule.typ = "string"
             THEN LET c == off + Len(rule.val.lit)
                  IN  CalcSizesFrom(rules, i + 1, Min(min_size, c), Max(max_size, c), c, TRUE)
             ELSE IF rule.typ = "struct"
             THEN LET c == off + calcsize(rule.val.pack)
                  IN  CalcSizesFrom(rules, i + 1, Min(min_size, c), Max(max_size, c), c, TRUE)
             ELSE IF rule.typ \in {"search", "regex"}
             THEN CalcSizesFrom(rules, i + 1, Min(min_size, off),
                                Max(max_size, off + rule.val.size), off, TRUE)
             ELSE IF ~have
             THEN [raised |-> TRUE, min_size |-> min_size, max_size |-> max_size]
             ELSE CalcSizesFrom(rules, i + 1, min_size, max_size, cpos, TRUE)

\* identifiers/__init__.py:42-67
_calc_identifier_sizes(identifier) == CalcSizesFrom(identifier.rules, 1, 4096, 0, 0, FALSE)

\* ------------------------------------------------------------ matching

\* a func rule's callback is the caller's code: it is handed the stream, which
\* stands at position pos after the prefix read, and the tail slice.
\*   "next_is_nul"   reads one more byte of the stream and accepts a NUL
\*   "tail_nonempty" looks at the slice alone
FuncCall(fn, file, pos, tail) ==
    IF fn = "next_is_nul"
    THEN [result |-> PySlice(file, pos, pos + 1) = <<0>>, pos |-> Min(pos + 1, Len(file))]
    ELSE [result |-> Len(tail) > 0, pos |-> pos]

Outcome(res, exc, pos) == [res |-> res, exc |-> exc, pos |-> pos]

\* what one turn of the rule loop ends with: res is "next" when the loop goes
\* on to the following rule; resolved says whether the rule's offset was
\* computed, off is that offset and hi the end of the slice data[off:hi] the
\* rule takes (a func rule takes data[off:])
Turn(res, exc, pos, current_pos, resolved, off, hi) ==
    [res |-> res, exc |-> exc, pos |-> pos, current_pos |-> current_pos,
     resolved |-> resolved, off |-> off, hi |-> hi]

\* identifiers/__init__.py:82-123: one turn of the rule loop of
\* test_identifier_rules.  current_pos is a local of the nested function,
\* unbound until a rule assigns it (bound says whether it is), so reading it
\* first raises UnboundLocalError; a negative string offset reaches the
\* undefined name RuntimeException, a NameError; struct.unpack raises
\* struct.error on a slice shorter than the pack.
RuleTurn(rule, data, file, pos, bound, current_pos) ==
    LET val == rule.val
    IN  IF rule.off.rel # "" /\ ~bound
        THEN Turn("raise", "UnboundLocalError", pos, current_pos, FALSE, 0, 0)
        ELSE LET off == ResolveOffset(rule.off, current_pos)
             IN  IF rule.off.rel # "" /\ off < 0
                 THEN Turn("raise", "NameError", pos, current_pos, TRUE, off, off)
                 ELSE IF rule.typ = "string"
                 THEN LET hi == off + Len(val.lit)
                      IN  IF PySlice(data, off, hi) # val.lit
                          THEN Turn("False", "", pos, current_pos, TRUE, off, hi)
                          ELSE Turn("next", "", pos, hi, TRUE, off, hi)
                 ELSE IF rule.typ = "struct"
                 THEN LET hi == off + calcsize(val.pack)
                          raw == PySlice(data, off, hi)
                      IN  IF Len(raw) # calcsize(val.pack)
                          THEN Turn("raise", "struct.error", pos, current_pos, TRUE, off, hi)
                          ELSE IF unpack(val.pack, raw) # val.vals
                          THEN Turn("False", "", pos, current_pos, TRUE, off, hi)
                          ELSE Turn("next", "", pos, hi, TRUE, off, hi)
                 ELSE IF rule.typ = "search"
                 THEN LET hi == off + val.size
                          found == PyFind(data, val.lit, off, hi)
                      IN  IF found < 0 THEN Turn("False", "", pos, found, TRUE, off, hi)
                          ELSE Turn("next", "", pos, found + Len(val.lit), TRUE, off, hi)
                 ELSE IF rule.typ = "regex"
                 THEN LET hi == off + val.size
                          end == RegexSearchEnd(val.re, PySlice(data, off, hi))
                      IN  IF end < 0 THEN Turn("False", "", pos, current_pos, TRUE, off, hi)
                          ELSE Turn("next", "", pos, off + end, TRUE, off, hi)
                 ELSE LET r == FuncCall(val.fn, file, pos, PyTail(data, off))
                      IN  IF ~r.result THEN Turn("False", "", r.pos, current_pos, TRUE, off, off)
                          ELSE Turn("next", "", r.pos, r.pos, TRUE, off, off)

\* identifiers/__init__.py:82-125: the rule loop of test_identifier_rules from
\* rule i on
RECURSIVE RunRules(_, _, _, _, _, _, _)
RunRules(rules, i, data, file, pos, bound, current_pos) ==
    IF i > Len(rules) THEN Outcome("True", "", pos)
    ELSE LET t == RuleTurn(rules[i], data, file, pos, bound, current_pos)
         IN  IF t.res # "next" THEN Outcome(t.res, t.exc, t.pos)
             ELSE RunRules(rules, i + 1, data, file, t.pos, TRUE, t.current_pos)

\* identifiers/__init__.py:77-125
test_identifier_rules(ident, data, file, pos) ==
    LET sizes == _calc_identifier_sizes(ident)
    IN  IF sizes.raised THEN Outcome("raise", "UnboundLocalError", pos)
        ELSE IF Len(data) < sizes.min_size THEN Outcome("False", "", pos)
        ELSE RunRules(ident.rules, 1, data, file, pos, FALSE, 0)

\* ------------------------------------------------------------ the registry

\* plugs.py:26-29
IDENTIFIERS == "identifiers"
PARSERS == "parsers"
SUBSYSTEMS == {IDENTIFIERS, PARSERS}

\* A tier (plugs.py:36-37) is a dict subsystem -> OrderedDict, modelled as a
\* function whose domain holds the subsystems added to so far.  An OrderedDict
\* is the sequence of its items in key order; the value of an item is one
\* pluggable (chained = FALSE, items of length 1) or a python list of them.
Item(plugtype, chained, items) == [key |-> plugtype, chained |-> chained, items |-> items]

\* what find_pluggable hands back: the stored value, or None
NoPluggable == [found |-> FALSE, chained |-> FALSE, items |-> << >>]
Stored(item) == [found |-> TRUE, chained |-> item.chained, items |-> item.items]

KeyIndex(od, plugtype) == { i \in 1..Len(od) : od[i].key = plugtype }

\* OrderedDict.get
OdGet(od, plugtype) ==
    IF KeyIndex(od, plugtype) = {} THEN NoPluggable
    ELSE Stored(od[CHOOSE i \in KeyIndex(od, plugtype) : TRUE])

\* a slip in plugs.py:53-56: a non-overriding add drops the values registered before
AddToTierDropsEarlier(pluggables, plugtype, pluggable, subsystem, override) ==
    LET od == IF subsystem \in DOMAIN pluggables THEN pluggables[subsystem] ELSE << >>
        at == KeyIndex(od, plugtype)
        new == IF at # {}
               THEN LET i == CHOOSE x \in at : TRUE
                    IN  IF override
                        THEN [od EXCEPT ![i] = Item(plugtype, FALSE, <<pluggable>>)]
                        ELSE [od EXCEPT ![i] = Item(plugtype, TRUE, <<pluggable>>)]
               ELSE Append(od, Item(plugtype, FALSE, <<pluggable>>))
    IN  [s \in DOMAIN pluggables \cup {subsystem} |-> IF s = subsystem THEN new ELSE pluggables[s]]

\* a slip in plugs.py:51-52: override is ignored and an existing key always chains
AddToTierAlwaysChains(pluggables, plugtype, pluggable, subsystem, override) ==
    LET od == IF subsystem \in DOMAIN pluggables THEN pluggables[subsystem] ELSE << >>
        at == KeyIndex(od, plugtype)
        new == IF at # {}
               THEN LET i == CHOOSE x \in at : TRUE
                    IN  [od EXCEPT ![i] = Item(plugtype, TRUE, Append(od[i].items, pluggable))]
               ELSE Append(od, Item(plugtype, FALSE, <<pluggable>>))
    IN  [s \in DOMAIN pluggables \cup {subsystem} |-> IF s = subsystem THEN new ELSE pluggables[s]]

\* plugs.py:50-58: what add_pluggable does to the tier it chose
AddToTier(pluggables, plugtype, pluggable, subsystem, override) ==
    LET od == IF subsystem \in DOMAIN pluggables THEN pluggables[subsystem] ELSE << >>
        at == KeyIndex(od, plugtype)
        new == IF at # {}
               THEN LET i == CHOOSE x \in at : TRUE
                    IN  IF override
                        THEN [od EXCEPT ![i] = Item(plugtype, FALSE, <<pluggable>>)]
                        ELSE [od EXCEPT ![i] = Item(plugtype, TRUE, Append(od[i].items, pluggable))]
               ELSE Append(od, Item(plugtype, FALSE, <<pluggable>>))
    IN  [s \in DOMAIN pluggables \cup {subsystem} |-> IF s = subsystem THEN new ELSE pluggables[s]]

\* a slip in plugs.py:69-72: the builtin tier is consulted first
FindBuiltinFirst(extra, builtin, subsystem, plugtype) ==
    LET first == IF subsystem \in DOMAIN builtin THEN OdGet(builtin[subsystem], plugtype)
                 ELSE NoPluggable
    IN  IF ~first.found /\ subsystem \in DOMAIN extra
        THEN OdGet(extra[subsystem], plugtype)
        ELSE first

\* plugs.py:60-73
find_pluggable(extra, builtin, subsystem, plugtype) ==
    LET first == IF subsystem \in DOMAIN extra THEN OdGet(extra[subsystem], plugtype)
                 ELSE NoPluggable
    IN  IF ~first.found /\ subsystem \in DOMAIN builtin
        THEN OdGet(builtin[subsystem], plugtype)
        ELSE first

\* plugs.py:82-87 and 89-94: the pairs one tier's loop yields
RECURSIVE YieldItems(_, _)
YieldItems(od, i) ==
    IF i > Len(od) THEN << >>
    ELSE [k \in 1..Len(od[i].items) |-> [plugtype |-> od[i].key, pluggable |-> od[i].items[k]]]
         \o YieldItems(od, i + 1)

YieldTier(pluggables, subsystem) ==
    IF subsystem \in DOMAIN pluggables THEN YieldItems(pluggables[subsystem], 1) ELSE << >>

\* plugs.py:75-94
iterate_pluggables(extra, builtin, subsystem) ==
    YieldTier(extra, subsystem) \o YieldTier(builtin, subsystem)

\* ------------------------------------------------------------ start-up tables

Reg(plugtype, pluggable) == [plugtype |-> plugtype, pluggable |-> pluggable]

\* a slip in identifiers/__init__.py:225 and 282: the generic ZIP program is
\* added ahead of the EPUB program
BuiltinIdentifiersZipFirst == <<
    Reg("ZIP09",  ib(<<StringRule(IntOff(0), <<80>>), StructRule(IntOff(1), ">b", <<0>>)>>)),
    Reg("EPUB2",  ib(<<StringRule(IntOff(0), <<80>>), StringRule(IntOff(2), <<60>>)>>)),
    Reg("ID3V22", ib(<<StringRule(IntOff(0), <<60>>), StructRule(IntOff(1), "bb", <<0, 0>>)>>)),
    Reg("MKV",    ib(<<StructRule(IntOff(0), ">b", <<0>>), SearchRule(IntOff(1), Window, <<0>>),
                       StringRule(StrOff("+", 1), <<80>>)>>)),
    Reg("OPF2",   it(<<StringRule(IntOff(0), <<60>>),
                       RegexRule(IntOff(1), Window, [pre |-> <<80>>, notc |-> 60, post |-> << >>])>>)),
    Reg("XHTML",  it(<<StringRule(IntOff(0), <<60>>), SearchRule(IntOff(3), Window, <<60, 80>>)>>)),
    Reg("HTML",   it(<<SearchRule(IntOff(0), Window, <<60, 80>>)>>)),
    Reg("HTML",   it(<<SearchRule(IntOff(0), Window, <<80, 60>>)>>)),
    Reg("XML",    it(<<StringRule(IntOff(0), <<60>>)>>)) >>

\* identifiers/__init__.py:225-286, one program per shape, in the table's order:
\*   225 EPUB2   two literals at absolute offsets, the first shared with ZIP
\*   250 ID3V22  a literal, then a struct that ends beyond the program's min_size
\*   260 MKV     a struct, a search, then a literal at a relative offset
\*   266 OPF2    text only: a literal, then a regex window
\*   268 XHTML   text only: a literal, then the search window that reaches furthest
\*   270 HTML    text only: a search from offset 0, registered twice (a chain)
\*   274 XML     text only: the literal OPF2 and XHTML start with
\*   282 ZIP09   a literal, then a one-byte struct
BuiltinIdentifiers == <<
    Reg("EPUB2",  ib(<<StringRule(IntOff(0), <<80>>), StringRule(IntOff(2), <<60>>)>>)),
    Reg("ID3V22", ib(<<StringRule(IntOff(0), <<60>>), StructRule(IntOff(1), "bb", <<0, 0>>)>>)),
    Reg("MKV",    ib(<<StructRule(IntOff(0), ">b", <<0>>), SearchRule(IntOff(1), Window, <<0>>),
                       StringRule(StrOff("+", 1), <<80>>)>>)),
    Reg("OPF2",   it(<<StringRule(IntOff(0), <<60>>),
                       RegexRule(IntOff(1), Window, [pre |-> <<80>>, notc |-> 60, post |-> << >>])>>)),
    Reg("XHTML",  it(<<StringRule(IntOff(0), <<60>>), SearchRule(IntOff(3), Window, <<60, 80>>)>>)),
    Reg("HTML",   it(<<SearchRule(IntOff(0), Window, <<60, 80>>)>>)),
    Reg("HTML",   it(<<SearchRule(IntOff(0), Window, <<80, 60>>)>>)),
    Reg("XML",    it(<<StringRule(IntOff(0), <<60>>)>>)),
    Reg("ZIP09",  ib(<<StringRule(IntOff(0), <<80>>), StructRule(IntOff(1), ">b", <<0>>)>>)) >>

\* parsers/__init__.py:27 and the initialize_parser of epub.py:99-103,
\* mobi.py:572-576, opf.py:110-111
parser(filetype, reader, writer, processor) ==
    [filetype |-> filetype, reader |-> reader, writer |-> writer, processor |-> processor]

\* parsers/__init__.py:29 and 74-98: pdb.py has no initialize_parser
BuiltinParsers == <<
    Reg("EPUB2", parser("EPUB2", "read_epub_metadata", None, "process_epub_metadata")),
    Reg("MOBI",  parser("MOBI", "read_mobi_metadata", None, "process_mobi_metadata")),
    Reg("OPF2",  parser("OPF2", "read_opf_metadata", None, None)) >>

\* identifiers/__init__.py:203-211: build() raises when the size computation does,
\* and raises max_data_buffer_size otherwise
RECURSIVE BuildAll(_, _, _)
BuildAll(regs, i, size) ==
    IF i > Len(regs) THEN size
    ELSE BuildAll(regs, i + 1, Max(size, _calc_identifier_sizes(regs[i].pluggable).max_size))

\* plugs.py:98-124: each subsystem's initializer runs with
\* adder = partial(add_pluggable, subsystem=subsys, builtin=True); the identifier
\* table narrows it to override=False (identifiers/__init__.py:218), the parsers
\* keep the default override=True
RECURSIVE AddAll(_, _, _, _, _)
AddAll(pluggables, regs, i, subsystem, override) ==
    IF i > Len(regs) THEN pluggables
    ELSE AddAll(AddToTier(pluggables, regs[i].plugtype, regs[i].pluggable, subsystem, override),
                regs, i + 1, subsystem, override)

AddCall(plugtype, pluggable, subsystem, override, builtin) ==
    [plugtype |-> plugtype, pluggable |-> pluggable, subsystem |-> subsystem,
     override |-> override, builtin |-> builtin]

EmptyTier == [s \in {} |-> << >>]
NoCall == [op |-> "import"]

\* plugs.py:126-132: the state once biblio.plugs is imported
Init ==
    /\ extra_pluggables = EmptyTier
    /\ builtin_pluggables =
          AddAll(AddAll(EmptyTier, BuiltinIdentifiers, 1, IDENTIFIERS, FALSE),
                 BuiltinParsers, 1, PARSERS, TRUE)
    /\ max_data_buffer_size = BuildAll(BuiltinIdentifiers, 1, 0)
    /\ history =
          [i \in 1..Len(BuiltinIdentifiers) |->
              AddCall(BuiltinIdentifiers[i].plugtype, BuiltinIdentifiers[i].pluggable,
                      IDENTIFIERS, FALSE, TRUE)]
          \o [i \in 1..Len(BuiltinParsers) |->
              AddCall(BuiltinParsers[i].plugtype, BuiltinParsers[i].pluggable,
                      PARSERS, TRUE, TRUE)]
    /\ ebook = << >>
    /\ call = NoCall

\* ------------------------------------------------------------ identify_stream

\* a slip in identifiers/__init__.py:130: the text test is left out
SkipsBinaryOnly(textfile, identifier) == ~textfile /\ ~identifier.binary

\* identifiers/__init__.py:130-131: the candidates the loop passes over
Skips(textfile, identifier) ==
    \/ textfile /\ ~identifier.text
    \/ ~textfile /\ ~identifier.binary

\* what a call of identify_stream ends with: a returned tag (None when nothing
\* matched) or an exception; matched is the position, in iteration order, of the
\* program that matched (0 for none) and tried the positions of the programs run
Returned(value, matched, tried) ==
    [kind |-> "return", value |-> value, exc |-> "", matched |-> matched, tried |-> tried]
Raised(exc, tried) ==
    [kind |-> "raise", value |-> None, exc |-> exc, matched |-> 0, tried |-> tried]

\* a slip in identifiers/__init__.py:132-133: the loop goes on after a match and
\* the last match wins
RECURSIVE IdentifyLastFrom(_, _, _, _, _, _, _)
IdentifyLastFrom(cands, i, data, file, pos, textfile, tried) ==
    IF i > Len(cands) THEN Returned(None, 0, tried)
    ELSE IF Skips(textfile, cands[i].pluggable)
    THEN IdentifyLastFrom(cands, i + 1, data, file, pos, textfile, tried)
    ELSE LET r == test_identifier_rules(cands[i].pluggable, data, file, pos)
             rest == IdentifyLastFrom(cands, i + 1, data, file, r.pos, textfile, Append(tried, i))
         IN  IF r.res = "raise" THEN Raised(r.exc, Append(tried, i))
             ELSE IF r.res = "True" /\ rest.kind = "return" /\ rest.matched = 0
             THEN Returned(cands[i].plugtype, i, rest.tried)
             ELSE rest

\* identifiers/__init__.py:129-135: the loop over the candidates from position i
RECURSIVE IdentifyFrom(_, _, _, _, _, _, _)
IdentifyFrom(cands, i, data, file, pos, textfile, tried) ==
    IF i > Len(cands) THEN Returned(None, 0, tried)
    ELSE IF Skips(textfile, cands[i].pluggable)
    THEN IdentifyFrom(cands, i + 1, data, file, pos, textfile, tried)
    ELSE LET r == test_identifier_rules(cands[i].pluggable, data, file, pos)
         IN  IF r.res = "True" THEN Returned(cands[i].plugtype, i, Append(tried, i))
             ELSE IF r.res = "raise" THEN Raised(r.exc, Append(tried, i))
             ELSE IdentifyFrom(cands, i + 1, data, file, r.pos, textfile, Append(tried, i))

\* a slip in identifiers/__init__.py:74: stream.read() with no size
ReadAll(file, size) == file

\* identifiers/__init__.py:74: data = stream.read(max_data_buffer_size)
ReadPrefix(file, size) == PySlice(file, 0, size)

\* identifiers/__init__.py:71-135, and identify_file (137-139) on a file of these bytes
identify_stream(extra, builtin, size, file) ==
    LET data == ReadPrefix(file, size)
    IN  IdentifyFrom(iterate_pluggables(extra, builtin, IDENTIFIERS), 1, data, file,
                     Len(data), is_text(data), << >>)

\* ------------------------------------------------------------ inputs

\* the prefix length the start-up table asks for
BuiltinBufferSize == BuildAll(BuiltinIdentifiers, 1, 0)

\* the files: every byte string up to MaxTail bytes longer than that prefix
Files == UNION { [1..n -> Alphabet] : n \in 0..(BuiltinBufferSize + MaxTail) }

\* programs a caller builds and registers
\*   UserLiteral  text or binary, one literal: it matches what EPUB2 and ZIP09 start with
\*   UserFunc     text or binary, a literal then a callback that reads on in the stream
UserLiteral == IdentifierBuilder(FALSE, FALSE, <<StringRule(IntOff(0), <<80>>)>>)
UserFunc == IdentifierBuilder(FALSE, FALSE,
                <<StringRule(IntOff(0), <<60>>), FuncRule(IntOff(1), "next_is_nul")>>)
UserIdentifiers == {UserLiteral, UserFunc}

\* the add_pluggable calls of the registry behaviours: both tiers, both override
\* settings, a tag the start-up tables hold and one they do not, and a
\* subsystem name plugs.py does not know
AddInputs ==
    { AddCall(t, UserLiteral, IDENTIFIERS, o, b) : t \in {"HTML", "PDF"}, o \in BOOLEAN, b \in BOOLEAN }
    \cup { AddCall(t, parser(t, "user_reader", None, None), PARSERS, o, b) :
              t \in {"MOBI", "PDF"}, o \in BOOLEAN, b \in BOOLEAN }
    \cup { AddCall("PDF", parser("PDF", "user_reader", None, None), "formats", TRUE, FALSE) }

\* the registrations of the identification behaviours: a caller's
\* add_pluggable(tag, program, IDENTIFIERS, override=False)
UserRegistrations == { AddCall("USER", p, IDENTIFIERS, FALSE, FALSE) : p \in UserIdentifiers }

StartupAdds == Len(BuiltinIdentifiers) + Len(BuiltinParsers)

\* ------------------------------------------------------------ actions

\* plugs.py:39-58, with the build() that made an identifier program
\* (identifiers/__init__.py:203-211): an unknown subsystem raises PlugException
add_pluggable(a) ==
    IF a.subsystem \notin SUBSYSTEMS
    THEN /\ call' = [op |-> "add_pluggable", args |-> a, raised |-> TRUE]
         /\ UNCHANGED <<extra_pluggables, builtin_pluggables, max_data_buffer_size, history, ebook>>
    ELSE /\ IF a.builtin
            THEN /\ builtin_pluggables' =
                       AddToTier(builtin_pluggables, a.plugtype, a.pluggable, a.subsystem, a.override)
                 /\ UNCHANGED extra_pluggables
            ELSE /\ extra_pluggables' =
                       AddToTier(extra_pluggables, a.plugtype, a.pluggable, a.subsystem, a.override)
                 /\ UNCHANGED builtin_pluggables
         /\ max_data_buffer_size' =
               IF a.subsystem = IDENTIFIERS
               THEN Max(max_data_buffer_size, _calc_identifier_sizes(a.pluggable).max_size)
               ELSE max_data_buffer_size
         /\ history' = Append(history, a)
         /\ call' = [op |-> "add_pluggable", args |-> a, raised |-> FALSE]
         /\ UNCHANGED ebook

AddPluggable ==
    /\ Len(history) - StartupAdds < MaxAdds
    /\ \E a \in AddInputs : add_pluggable(a)

RegisterIdentifier ==
    /\ Len(history) - StartupAdds < MaxUserIdentifiers
    /\ \E a \in UserRegistrations : add_pluggable(a)

\* plugs.py:60-73
FindPluggable ==
    /\ \E subsystem \in SUBSYSTEMS, plugtype \in {"HTML", "MOBI", "PDF"} :
          call' = [op |-> "find_pluggable", subsystem |-> subsystem, plugtype |-> plugtype,
                   result |-> find_pluggable(extra_pluggables, builtin_pluggables,
                                             subsystem, plugtype)]
    /\ UNCHANGED <<extra_pluggables, builtin_pluggables, max_data_buffer_size, history, ebook>>

\* plugs.py:75-94
IteratePluggables ==
    /\ \E subsystem \in SUBSYSTEMS :
          call' = [op |-> "iterate_pluggables", subsystem |-> subsystem,
                   result |-> iterate_pluggables(extra_pluggables, builtin_pluggables, subsystem)]
    /\ UNCHANGED <<extra_pluggables, builtin_pluggables, max_data_buffer_size, history, ebook>>

\* identifiers/__init__.py:137-139 and 71-135.  The call changes nothing but the
\* record of the last call, so a call that follows another reaches no state the
\* first does not: the guard spares TLC the repetition.
IdentifyFile ==
    /\ call.op \notin {"identify_file", "identify.identify_file"}
    /\ \E file \in Files :
          call' = [op |-> "identify_file", file |-> file,
                   data |-> ReadPrefix(file, max_data_buffer_size),
                   result |-> identify_stream(extra_pluggables, builtin_pluggables,
                                              max_data_buffer_size, file)]
    /\ UNCHANGED <<extra_pluggables, builtin_pluggables, max_data_buffer_size, history, ebook>>

\* the registry behaviours
NextPlugs == AddPluggable \/ FindPluggable \/ IteratePluggables
SpecPlugs == Init /\ [][NextPlugs]_vars

\* the identification behaviours
NextIdentify == RegisterIdentifier \/ IdentifyFile
SpecIdentify == Init /\ [][NextIdentify]_vars

\* ------------------------------------------------------------ PDB header

\* pdb.py:152: struct.calcsize('>32sHHLLLLLL4s4sLLH')
PdbHeaderSize == 78
\* pdb.py:156: struct.calcsize('>LBBBB')
RecordInfoSize == 8

\* A PDB file, as far as _parse_pdb_header reads it: whether it holds the 78
\* header bytes, the num_records field, the leading u32 of each whole 8-byte
\* block that follows the header, and the bytes left over after the last
\* whole block.  The blocks are there whatever num_records says.
PdbFile(whole, num_records, starts, trailing) ==
    [whole |-> whole, num_records |-> num_records, starts |-> starts, trailing |-> trailing]

\* stream.seek(0, 2); stream.tell()
PdbSize(f) == PdbHeaderSize + RecordInfoSize * Len(f.starts) + f.trailing

RecordOffsets == {0} \cup { PdbHeaderSize + RecordInfoSize * k : k \in 1..(MaxRecords + 1) }

PdbFiles ==
    { PdbFile(TRUE, n, s, t) :
        n \in 0..MaxRecords,
        s \in UNION { [1..k -> RecordOffsets] : k \in 0..(MaxRecords + 1) },
        t \in {0, 2} }
    \cup { PdbFile(FALSE, 0, << >>, 2) }

Parsed(num_records, records) == [raised |-> FALSE, num_records |-> num_records, records |-> records]
StructError == [raised |-> TRUE, num_records |-> 0, records |-> << >>]

\* pdb.py:157-160: the loop from n on; block n + 1 holds next_start
RECURSIVE RecordLoop(_, _, _, _)
RecordLoop(f, n, start, records) ==
    IF n >= f.num_records
    THEN Parsed(f.num_records, Append(records, <<start, PdbSize(f) - start>>))
    ELSE IF n + 1 > Len(f.starts) THEN StructError
    ELSE RecordLoop(f, n + 1, f.starts[n + 1],
                    Append(records, <<start, f.starts[n + 1] - start>>))

\* pdb.py:134-169: struct.unpack raises struct.error on a short read
_parse_pdb_header(f) ==
    IF ~f.whole THEN StructError
    ELSE IF Len(f.starts) < 1 THEN StructError
    ELSE RecordLoop(f, 1, f.starts[1], << >>)

\* pdb.py:129-130; one parse per behaviour, as for IdentifyFile
ParsePdbHeader ==
    /\ call.op # "_parse_pdb_header"
    /\ \E f \in PdbFiles :
          call' = [op |-> "_parse_pdb_header", file |-> f, result |-> _parse_pdb_header(f)]
    /\ UNCHANGED <<extra_pluggables, builtin_pluggables, max_data_buffer_size, history, ebook>>

\* the PDB behaviours
NextPdb == ParsePdbHeader
SpecPdb == Init /\ [][NextPdb]_vars

\* ------------------------------------------------------------ properties

\* the (tag, program) pairs identify_stream walks, in its order
Candidates == iterate_pluggables(extra_pluggables, builtin_pluggables, IDENTIFIERS)

\* the program's flag for the class of the buffer
Accepts(p, data) == IF is_text(data) THEN p.text ELSE p.binary

\* where the stream stands when candidate i is reached: after the prefix read
\* and after the callbacks of the candidates run before it
RECURSIVE StreamPosBefore(_, _, _)
StreamPosBefore(i, data, file) ==
    IF i = 1 THEN Len(data)
    ELSE LET p == StreamPosBefore(i - 1, data, file)
             c == Candidates[i - 1].pluggable
         IN  IF Accepts(c, data) THEN test_identifier_rules(c, data, file, p).pos ELSE p

\* candidate i is of the buffer's class and all its rules succeed on the buffer
Succeeds(i, data, file) ==
    /\ Accepts(Candidates[i].pluggable, data)
    /\ test_identifier_rules(Candidates[i].pluggable, data, file,
                             StreamPosBefore(i, data, file)).res = "True"

Identified == call.op = "identify_file"

\* C1: identify_stream returns the file type of the first candidate, in
\* iteration order, all of whose rules succeed on the prefix buffer; no later
\* program is consulted, and the result is None when no candidate matches.
C1_FirstMatchWins ==
    Identified =>
        LET r == call.result
            hits == { i \in 1..Len(Candidates) : Succeeds(i, call.data, call.file) }
            first == IF hits = {} THEN 0 ELSE CHOOSE i \in hits : \A j \in hits : i <= j
        IN  /\ r.kind = "return"
            /\ r.matched = first
            /\ r.value = IF first = 0 THEN None ELSE Candidates[first].plugtype
            /\ first # 0 => \A k \in 1..Len(r.tried) : r.tried[k] <= first

\* the pairs registered for the identifiers subsystem in one tier, in the
\* order of the add_pluggable calls
InsertionOrder(builtin) ==
    LET Sel(a) == a.subsystem = IDENTIFIERS /\ a.builtin = builtin
        h == SelectSeq(history, Sel)
    IN  [k \in 1..Len(h) |-> Reg(h[k].plugtype, h[k].pluggable)]

\* C2: when every identifier registration used override=false, identify_stream
\* tries the pairs in insertion order within a tier, the extra tier first.
C2_InsertionOrder ==
    (\A k \in 1..Len(history) : history[k].subsystem = IDENTIFIERS => ~history[k].override)
        => Candidates = InsertionOrder(FALSE) \o InsertionOrder(TRUE)

\* C3: a tag is never returned through a program whose flag for the class of
\* the buffer (text or binary) is false.
C3_Gating ==
    (Identified /\ call.result.matched # 0)
        => Accepts(Candidates[call.result.matched].pluggable, call.data)

\* a tag was returned although an earlier program of the other class has rules
\* that all succeed on the buffer
C3_Witness ==
    /\ Identified
    /\ call.result.matched # 0
    /\ \E i \in 1..(call.result.matched - 1) :
          /\ ~Accepts(Candidates[i].pluggable, call.data)
          /\ test_identifier_rules(Candidates[i].pluggable, call.data, call.file,
                                   Len(call.data)).res = "True"

\* C4: with only the start-up programs registered, identifying a file of any
\* content and length ends with a file type or None, never with an exception.
C4_NeverRaises ==
    (Identified /\ IDENTIFIERS \notin DOMAIN extra_pluggables) => call.result.kind = "return"

\* C5 as stated: a file whose first P.max_size bytes match a registered program
\* P is identified as P's tag.
C5_PrefixOnlyAsStated ==
    Identified =>
        \A i \in 1..Len(Candidates) :
            LET P == Candidates[i].pluggable
                head == PySlice(call.file, 0, _calc_identifier_sizes(P).max_size)
            IN  test_identifier_rules(P, head, call.file, Len(call.data)).res = "True"
                    => call.result.kind = "return" /\ call.result.value = Candidates[i].plugtype

\* C5, amended: when the prefix buffer is of a class P accepts and satisfies all
\* of P's rules, the call never yields None: it returns the tag of the first
\* such program in iteration order (P's, unless a program tried earlier
\* matches), or it ends with the exception of a program tried before P.
C5_PrefixOnly ==
    Identified =>
        \A i \in 1..Len(Candidates) :
            Succeeds(i, call.data, call.file) =>
                LET r == call.result
                IN  \/ /\ r.kind = "return"
                       /\ r.matched \in 1..i
                       /\ r.value = Candidates[r.matched].plugtype
                       /\ Succeeds(r.matched, call.data, call.file)
                       /\ \A j \in 1..(r.matched - 1) : ~Succeeds(j, call.data, call.file)
                    \/ /\ r.kind = "raise"
                       /\ r.tried # << >>
                       /\ r.tried[Len(r.tried)] < i

\* a file longer than the prefix buffer matches a program and is given the tag
\* of a program tried before it
C5_Witness ==
    /\ Identified
    /\ Len(call.file) > Len(call.data)
    /\ call.result.kind = "return"
    /\ \E i \in 1..Len(Candidates) :
          /\ Succeeds(i, call.data, call.file)
          /\ call.result.matched \in 1..(i - 1)

\* the files that share their first size bytes with file
SamePrefix(file, size) ==
    IF Len(file) < size THEN {file}
    ELSE { SubSeq(file, 1, size) \o t :
              t \in UNION { [1..n -> Alphabet] : n \in 0..(BuiltinBufferSize + MaxTail - size) } }

NoFuncRule ==
    \A i \in 1..Len(Candidates) :
        \A k \in 1..Len(Candidates[i].pluggable.rules) :
            Candidates[i].pluggable.rules[k].typ # "func"

\* C6 as stated: at most max_data_buffer_size bytes are read and no rule of any
\* kind, func included, reads beyond them: files that agree on those bytes end
\* the same way.
C6_PrefixBufferAsStated ==
    Identified =>
        /\ Len(call.data) <= max_data_buffer_size
        /\ \A f \in SamePrefix(call.file, max_data_buffer_size) :
              identify_stream(extra_pluggables, builtin_pluggables, max_data_buffer_size, f)
                  = call.result

\* C6, amended: the engine reads at most max_data_buffer_size bytes, and when no
\* registered program holds a func rule (whose callback is handed the stream)
\* files that agree on those bytes end the same way.
C6_PrefixBuffer ==
    Identified =>
        /\ Len(call.data) <= max_data_buffer_size
        /\ call.data = SubSeq(call.file, 1, Min(Len(call.file), max_data_buffer_size))
        /\ NoFuncRule =>
              \A f \in SamePrefix(call.file, max_data_buffer_size) :
                  identify_stream(extra_pluggables, builtin_pluggables, max_data_buffer_size, f)
                      = call.result

\* a file is given a tag on a text prefix although the byte after the prefix
\* makes the whole file binary
C6_Witness ==
    /\ Identified
    /\ NoFuncRule
    /\ Len(call.file) > max_data_buffer_size
    /\ call.result.matched # 0
    /\ is_text(call.data) /\ ~is_text(call.file)

\* the items a tier holds under a key of a subsystem
TierItems(pluggables, subsystem, plugtype) ==
    IF subsystem \in DOMAIN pluggables
    THEN { pluggables[subsystem][i] :
              i \in { j \in 1..Len(pluggables[subsystem]) : pluggables[subsystem][j].key = plugtype } }
    ELSE {}

\* the values a tier holds under a key, earliest first
Chain(pluggables, subsystem, plugtype) ==
    IF TierItems(pluggables, subsystem, plugtype) = {} THEN << >>
    ELSE (CHOOSE x \in TierItems(pluggables, subsystem, plugtype) : TRUE).items

\* the values iterate_pluggables yields under a key, in its order
IterTag(extra, builtin, subsystem, plugtype) ==
    LET Sel(r) == r.plugtype = plugtype
        q == SelectSeq(iterate_pluggables(extra, builtin, subsystem), Sel)
    IN  [k \in 1..Len(q) |-> q[k].pluggable]

\* C7: find returns what the extra tier holds under the tag whenever it holds
\* something, and what the builtin tier holds only when the extra tier has none.
C7_LookupPrecedence ==
    call.op = "find_pluggable" =>
        LET e == TierItems(extra_pluggables, call.subsystem, call.plugtype)
            b == TierItems(builtin_pluggables, call.subsystem, call.plugtype)
            r == call.result
        IN  IF e # {} THEN r.found /\ \E x \in e : r.items = x.items /\ r.chained = x.chained
            ELSE IF b # {} THEN r.found /\ \E x \in b : r.items = x.items /\ r.chained = x.chained
            ELSE ~r.found

\* find ran on a tag both tiers hold, with different values
C7_Witness ==
    /\ call.op = "find_pluggable"
    /\ Chain(extra_pluggables, call.subsystem, call.plugtype) # << >>
    /\ Chain(builtin_pluggables, call.subsystem, call.plugtype) # << >>
    /\ Chain(extra_pluggables, call.subsystem, call.plugtype)
          # Chain(builtin_pluggables, call.subsystem, call.plugtype)
    /\ call.result.items = Chain(extra_pluggables, call.subsystem, call.plugtype)

\* C8: an add with override=false on a tag its tier already holds keeps the
\* earlier values and appends the new one, and iterate then yields the whole
\* chain, earlier registrations first; with override=true the entry becomes
\* the single new value.
C8_ChainSemantics ==
    [][ (call'.op = "add_pluggable" /\ ~call'.raised /\ history' # history) =>
          LET a == call'.args
              old == IF a.builtin THEN Chain(builtin_pluggables, a.subsystem, a.plugtype)
                     ELSE Chain(extra_pluggables, a.subsystem, a.plugtype)
              now == IF a.builtin THEN TierItems(builtin_pluggables', a.subsystem, a.plugtype)
                     ELSE TierItems(extra_pluggables', a.subsystem, a.plugtype)
          IN  old # << >> =>
                IF a.override
                THEN now = {Item(a.plugtype, FALSE, <<a.pluggable>>)}
                ELSE /\ now = {Item(a.plugtype, TRUE, Append(old, a.pluggable))}
                     /\ IterTag(extra_pluggables', builtin_pluggables', a.subsystem, a.plugtype)
                           = Chain(extra_pluggables', a.subsystem, a.plugtype)
                             \o Chain(builtin_pluggables', a.subsystem, a.plugtype)
      ]_vars

\* an add with override=false has just extended a chain
C8_Witness ==
    /\ call.op = "add_pluggable"
    /\ ~call.raised
    /\ ~call.args.override
    /\ LET c == IF call.args.builtin
                THEN Chain(builtin_pluggables, call.args.subsystem, call.args.plugtype)
                ELSE Chain(extra_pluggables, call.args.subsystem, call.args.plugtype)
       IN  Len(c) >= 2 /\ c[Len(c)] = call.args.pluggable

FileTypes == {"EPUB2", "MOBI", "OPF2", "PDF"}

\* C9 as stated: after any adds on the parsers subsystem a FileType appears in
\* at most one parser registration.
C9_OneParserAsStated ==
    \A t \in FileTypes : Len(IterTag(extra_pluggables, builtin_pluggables, PARSERS, t)) <= 1

\* C9, amended: when every add on the parsers subsystem used override=true, a
\* FileType appears in at most one parser registration of each tier, and
\* find never yields a chain of parsers.
C9_OneParser ==
    (\A k \in 1..Len(history) : history[k].subsystem = PARSERS => history[k].override)
        => \A t \in FileTypes :
              /\ Len(Chain(extra_pluggables, PARSERS, t)) <= 1
              /\ Len(Chain(builtin_pluggables, PARSERS, t)) <= 1
              /\ ~find_pluggable(extra_pluggables, builtin_pluggables, PARSERS, t).chained

\* a parser was added with override=true under a tag its tier already held
C9_Witness ==
    /\ \A k \in 1..Len(history) : history[k].subsystem = PARSERS => history[k].override
    /\ call.op = "add_pluggable"
    /\ ~call.raised
    /\ call.args.subsystem = PARSERS
    /\ call.args.builtin
    /\ call.args.plugtype = "MOBI"
    /\ Chain(builtin_pluggables, PARSERS, "MOBI") = <<call.args.pluggable>>

\* C10: the records list the header parser produces has exactly num_records
\* entries, for every num_records.
C10_RecordCount ==
    (call.op = "_parse_pdb_header" /\ ~call.result.raised)
        => Len(call.result.records) = call.file.num_records

\* C11: in every records list the header parser returns, each (offset, length)
\* pair has a length >= 0, offset + length never exceeds the file size and the
\* offsets are non-decreasing; a record table out of order is not accepted.
C11_OrderedRecords ==
    (call.op = "_parse_pdb_header" /\ ~call.result.raised) =>
        LET records == call.result.records
        IN  /\ \A k \in 1..Len(records) :
                  /\ records[k][2] >= 0
                  /\ records[k][1] + records[k][2] <= PdbSize(call.file)
            /\ \A k \in 1..(Len(records) - 1) : records[k][1] <= records[k + 1][1]

\* ------------------------------------------------------------ language tags

\* A tag is the sequence of its subtags, as icode.split('-') gives them and as
\* prefix + '-' + suffix joins them.

\* one (subcode, (language id, dialect id)) item of a language's dict
Sub(subcode, cc, cl) == [subcode |-> subcode, t |-> <<cc, cl>>]
\* one (code, dict) item of IANA_MOBI
Lang(code, d) == [code |-> code, d |-> d]

\* mobi.py:381-524, the items in the order of the source
IANA_MOBI == <<
    Lang(None, <<Sub(None, 0, 0)>>),
    Lang("af", <<Sub(None, 54, 0)>>),
    Lang("ar", <<Sub(None, 1, 0), Sub("AE", 1, 56), Sub("BH", 1, 60), Sub("DZ", 1, 20),
              Sub("EG", 1, 12), Sub("JO", 1, 44), Sub("KW", 1, 52), Sub("LB", 1, 48),
              Sub("MA", 1, 24), Sub("OM", 1, 32), Sub("QA", 1, 64), Sub("SA", 1, 4),
              Sub("SY", 1, 40), Sub("TN", 1, 28), Sub("YE", 1, 36)>>),
    Lang("as", <<Sub(None, 77, 0)>>),
    Lang("az", <<Sub(None, 44, 0)>>),
    Lang("be", <<Sub(None, 35, 0)>>),
    Lang("bg", <<Sub(None, 2, 0)>>),
    Lang("bn", <<Sub(None, 69, 0)>>),
    Lang("ca", <<Sub(None, 3, 0)>>),
    Lang("cs", <<Sub(None, 5, 0)>>),
    Lang("da", <<Sub(None, 6, 0)>>),
    Lang("de", <<Sub(None, 7, 0), Sub("AT", 7, 12), Sub("CH", 7, 8), Sub("LI", 7, 20),
              Sub("LU", 7, 16)>>),
    Lang("el", <<Sub(None, 8, 0)>>),
    Lang("en", <<Sub(None, 9, 0), Sub("AU", 9, 12), Sub("BZ", 9, 40), Sub("CA", 9, 16),
              Sub("GB", 9, 8), Sub("IE", 9, 24), Sub("JM", 9, 32), Sub("NZ", 9, 20),
              Sub("PH", 9, 52), Sub("TT", 9, 44), Sub("US", 9, 4), Sub("ZA", 9, 28),
              Sub("ZW", 9, 48)>>),
    Lang("es", <<Sub(None, 10, 0), Sub("AR", 10, 44), Sub("BO", 10, 64), Sub("CL", 10, 52),
              Sub("CO", 10, 36), Sub("CR", 10, 20), Sub("DO", 10, 28), Sub("EC", 10, 48),
              Sub("ES", 10, 4), Sub("GT", 10, 16), Sub("HN", 10, 72), Sub("MX", 10, 8),
              Sub("NI", 10, 76), Sub("PA", 10, 24), Sub("PE", 10, 40), Sub("PR", 10, 80),
              Sub("PY", 10, 60), Sub("SV", 10, 68), Sub("UY", 10, 56), Sub("VE", 10, 32)>>),
    Lang("et", <<Sub(None, 37, 0)>>),
    Lang("eu", <<Sub(None, 45, 0)>>),
    Lang("fa", <<Sub(None, 41, 0)>>),
    Lang("fi", <<Sub(None, 11, 0)>>),
    Lang("fo", <<Sub(None, 56, 0)>>),
    Lang("fr", <<Sub(None, 12, 0), Sub("BE", 12, 8), Sub("CA", 12, 12), Sub("CH", 12, 16),
              Sub("FR", 12, 4), Sub("LU", 12, 20), Sub("MC", 12, 24)>>),
    Lang("gu", <<Sub(None, 71, 0)>>),
    Lang("he", <<Sub(None, 13, 0)>>),
    Lang("hi", <<Sub(None, 57, 0)>>),
    Lang("hr", <<Sub(None, 26, 0)>>),
    Lang("hu", <<Sub(None, 14, 0)>>),
    Lang("hy", <<Sub(None, 43, 0)>>),
    Lang("id", <<Sub(None, 33, 0)>>),
    Lang("is", <<Sub(None, 15, 0)>>),
    Lang("it", <<Sub(None, 16, 0), Sub("CH", 16, 8), Sub("IT", 16, 4)>>),
    Lang("ja", <<Sub(None, 17, 0)>>),
    Lang("ka", <<Sub(None, 55, 0)>>),
    Lang("kk", <<Sub(None, 63, 0)>>),
    Lang("kn", <<Sub(None, 75, 0)>>),
    Lang("ko", <<Sub(None, 18, 0)>>),
    Lang("kok", <<Sub(None, 87, 0)>>),
    Lang("lt", <<Sub(None, 39, 0)>>),
    Lang("lv", <<Sub(None, 38, 0)>>),
    Lang("mk", <<Sub(None, 47, 0)>>),
    Lang("ml", <<Sub(None, 76, 0)>>),
    Lang("mr", <<Sub(None, 78, 0)>>),
    Lang("ms", <<Sub(None, 62, 0)>>),
    Lang("mt", <<Sub(None, 58, 0)>>),
    Lang("ne", <<Sub(None, 97, 0)>>),
    Lang("nl", <<Sub(None, 19, 0), Sub("BE", 19, 8)>>),
    Lang("no", <<Sub(None, 20, 0)>>),
    Lang("or", <<Sub(None, 72, 0)>>),
    Lang("pa", <<Sub(None, 70, 0)>>),
    Lang("pl", <<Sub(None, 21, 0)>>),
    Lang("pt", <<Sub(None, 22, 0), Sub("BR", 22, 4), Sub("PT", 22, 8)>>),
    Lang("rm", <<Sub(None, 23, 0)>>),
    Lang("ro", <<Sub(None, 24, 0)>>),
    Lang("ru", <<Sub(None, 25, 0)>>),
    Lang("sa", <<Sub(None, 79, 0)>>),
    Lang("se", <<Sub(None, 59, 0)>>),
    Lang("sk", <<Sub(None, 27, 0)>>),
    Lang("sl", <<Sub(None, 36, 0)>>),
    Lang("sq", <<Sub(None, 28, 0)>>),
    Lang("sr", <<Sub(None, 26, 12), Sub("RS", 26, 12)>>),
    Lang("st", <<Sub(None, 48, 0)>>),
    Lang("sv", <<Sub(None, 29, 0), Sub("FI", 29, 8)>>),
    Lang("sw", <<Sub(None, 65, 0)>>),
    Lang("ta", <<Sub(None, 73, 0)>>),
    Lang("te", <<Sub(None, 74, 0)>>),
    Lang("th", <<Sub(None, 30, 0)>>),
    Lang("tn", <<Sub(None, 50, 0)>>),
    Lang("tr", <<Sub(None, 31, 0)>>),
    Lang("ts", <<Sub(None, 49, 0)>>),
    Lang("tt", <<Sub(None, 68, 0)>>),
    Lang("uk", <<Sub(None, 34, 0)>>),
    Lang("ur", <<Sub(None, 32, 0)>>),
    Lang("uz", <<Sub(None, 67, 0), Sub("UZ", 67, 8)>>),
    Lang("vi", <<Sub(None, 42, 0)>>),
    Lang("wen", <<Sub(None, 46, 0)>>),
    Lang("xh", <<Sub(None, 52, 0)>>),
    Lang("zh", <<Sub(None, 4, 0), Sub("CN", 4, 8), Sub("HK", 4, 12), Sub("SG", 4, 16),
              Sub("TW", 4, 4)>>),
    Lang("zu", <<Sub(None, 53, 0)>>) >>

\* str.lower on the region subtags of the table
LowerRegion ==
    "AE" :> "ae" @@ "BH" :> "bh" @@ "DZ" :> "dz" @@ "EG" :> "eg" @@ "JO" :> "jo" @@ "KW" :> "kw"
        @@ "LB" :> "lb" @@ "MA" :> "ma" @@ "OM" :> "om" @@ "QA" :> "qa" @@ "SA" :> "sa"
        @@ "SY" :> "sy" @@ "TN" :> "tn" @@ "YE" :> "ye" @@ "AT" :> "at" @@ "CH" :> "ch"
        @@ "LI" :> "li" @@ "LU" :> "lu" @@ "AU" :> "au" @@ "BZ" :> "bz" @@ "CA" :> "ca"
        @@ "GB" :> "gb" @@ "IE" :> "ie" @@ "JM" :> "jm" @@ "NZ" :> "nz" @@ "PH" :> "ph"
        @@ "TT" :> "tt" @@ "US" :> "us" @@ "ZA" :> "za" @@ "ZW" :> "zw" @@ "AR" :> "ar"
        @@ "BO" :> "bo" @@ "CL" :> "cl" @@ "CO" :> "co" @@ "CR" :> "cr" @@ "DO" :> "do"
        @@ "EC" :> "ec" @@ "ES" :> "es" @@ "GT" :> "gt" @@ "HN" :> "hn" @@ "MX" :> "mx"
        @@ "NI" :> "ni" @@ "PA" :> "pa" @@ "PE" :> "pe" @@ "PR" :> "pr" @@ "PY" :> "py"
        @@ "SV" :> "sv" @@ "UY" :> "uy" @@ "VE" :> "ve" @@ "BE" :> "be" @@ "FR" :> "fr"
        @@ "MC" :> "mc" @@ "IT" :> "it" @@ "BR" :> "br" @@ "PT" :> "pt" @@ "RS" :> "rs"
        @@ "FI" :> "fi" @@ "UZ" :> "uz" @@ "CN" :> "cn" @@ "HK" :> "hk" @@ "SG" :> "sg"
        @@ "TW" :> "tw"

\* 'None' if subcode is None, else subcode.lower()
Lower(subcode) == IF subcode \in DOMAIN LowerRegion THEN LowerRegion[subcode] ELSE subcode

\* what a codec call ends with
LangValue(value) == [raised |-> FALSE, exc |-> "", value |-> value]
NameError(name) == [raised |-> TRUE, exc |-> "NameError: " \o name, value |-> << >>]

\* mobi.py:526-547.  The module imports re and struct and nothing named
\* lang_as_iso639_1 or pack (mobi.py:194-202): a tag with a subtag stops at
\* line 532 on the first pass of the loop, the empty tag at line 547.
iana2mobi_language(icode) ==
    IF Len(icode) > 0 THEN NameError("lang_as_iso639_1") ELSE NameError("pack")

\* dict.items() promises no order: an order is a rotation of the source order,
\* forwards or backwards, for the table, and a direction for each dict
Rotate(s, k) == [i \in 1..Len(s) |-> s[((i - 1 + k) % Len(s)) + 1]]
Reverse(s) == [i \in 1..Len(s) |-> s[Len(s) + 1 - i]]
Order(rot, rev, inner) == [rot |-> rot, rev |-> rev, inner |-> inner]
Orders == { Order(k, r, i) : k \in 0..(Len(IANA_MOBI) - 1), r \in BOOLEAN, i \in BOOLEAN }
Items(order) ==
    LET t == Rotate(IANA_MOBI, order.rot) IN IF order.rev THEN Reverse(t) ELSE t
SubItems(d, order) == IF order.inner THEN Reverse(d) ELSE d

\* mobi.py:555-561: the loop over one dict, from item j on
RECURSIVE SubLoop(_, _, _, _, _, _, _)
SubLoop(d, j, code, langcode, sublangcode, prefix, suffix) ==
    IF j > Len(d) THEN [prefix |-> prefix, suffix |-> suffix]
    ELSE LET cc == d[j].t[1]
             cl == d[j].t[2]
             p == IF cc = langcode THEN code ELSE prefix
         IN  IF cl = sublangcode
             THEN [prefix |-> p,
                   suffix |-> IF d[j].subcode # None THEN Lower(d[j].subcode) ELSE None]
             ELSE SubLoop(d, j + 1, code, langcode, sublangcode, p, suffix)

\* mobi.py:554-563: the loop over the table, from item i on
RECURSIVE LangLoop(_, _, _, _, _, _, _)
LangLoop(items, i, order, langcode, sublangcode, prefix, suffix) ==
    IF i > Len(items) THEN [prefix |-> prefix, suffix |-> suffix]
    ELSE LET r == SubLoop(SubItems(items[i].d, order), 1, items[i].code,
                          langcode, sublangcode, prefix, suffix)
         IN  IF r.prefix # None THEN r
             ELSE LangLoop(items, i + 1, order, langcode, sublangcode, r.prefix, r.suffix)

\* mobi.py:549-568
mobi2iana_language(order, mobi_locale) ==
    LET langcode == mobi_locale % 256
        sublangcode == (mobi_locale \div 1024) % 256
        r == LangLoop(Items(order), 1, order, langcode, sublangcode, None, None)
    IN  IF r.prefix = None THEN <<"und">>
        ELSE IF r.suffix = None THEN <<r.prefix>>
        ELSE <<r.prefix, r.suffix>>

\* struct.pack('>HBB', 0, dialect, language) read back as an integer
Packed(cc, cl) == cl * 256 + cc

\* the (code, subcode, language id, dialect id) rows of the table's languages
TableRows ==
    UNION { { [code |-> IANA_MOBI[i].code, subcode |-> IANA_MOBI[i].d[j].subcode,
               cc |-> IANA_MOBI[i].d[j].t[1], cl |-> IANA_MOBI[i].d[j].t[2]] :
                 j \in 1..Len(IANA_MOBI[i].d) } : i \in 2..Len(IANA_MOBI) }

\* the tag of a row: "xx" or "xx-YY"
TagOf(row) == IF row.subcode = None THEN <<row.code>> ELSE <<row.code, row.subcode>>

\* the tags handed to iana2mobi_language: those of the table, the empty tag
\* and a tag the table does not hold
ICodes == { TagOf(row) : row \in TableRows } \cup { << >>, <<"tlh">> }

\* the locales handed to mobi2iana_language: for each row the integer its
\* packed bytes read as and the integer that decodes to its pair, and a
\* language id the table does not hold
Locales ==
    { Packed(row.cc, row.cl) : row \in TableRows } \cup
    { row.cc + 1024 * row.cl : row \in TableRows } \cup { 255 }

\* mobi.py:526; one conversion per behaviour
Iana2MobiLanguage ==
    /\ call = NoCall
    /\ \E icode \in ICodes :
          call' = [op |-> "iana2mobi_language", icode |-> icode,
                   result |-> iana2mobi_language(icode)]
    /\ UNCHANGED <<extra_pluggables, builtin_pluggables, max_data_buffer_size, history, ebook>>

\* mobi.py:549; one conversion per behaviour
Mobi2IanaLanguage ==
    /\ call = NoCall
    /\ \E mobi_locale \in Locales, order \in Orders :
          call' = [op |-> "mobi2iana_language", mobi_locale |-> mobi_locale, order |-> order,
                   result |-> LangValue(mobi2iana_language(order, mobi_locale))]
    /\ UNCHANGED <<extra_pluggables, builtin_pluggables, max_data_buffer_size, history, ebook>>

\* the codec's behaviours
NextLang == Iana2MobiLanguage \/ Mobi2IanaLanguage
SpecLang == Init /\ [][NextLang]_vars

\* C12: for every (lang, region) pair of the table
\* mobi2iana(iana2mobi("lang-REGION")) = "lang-region", and
\* mobi2iana(0x0409) = "en-us".
C12_RegionRoundTrip ==
    /\ (call.op = "iana2mobi_language" /\ Len(call.icode) = 2) =>
          /\ ~call.result.raised
          /\ \A order \in Orders :
                mobi2iana_language(order, call.result.value)
                    = <<call.icode[1], Lower(call.icode[2])>>
    /\ (call.op = "mobi2iana_language" /\ call.mobi_locale = 1033) =>
          call.result.value = <<"en", "us">>

\* C13: for every language xx of the table mobi2iana(iana2mobi("xx")) = "xx".
C13_LanguageRoundTrip ==
    (call.op = "iana2mobi_language" /\ Len(call.icode) = 1 /\ call.icode # <<"tlh">>) =>
        /\ ~call.result.raised
        /\ \A order \in Orders : mobi2iana_language(order, call.result.value) = call.icode

\* ------------------------------------------------------------ write_metadata

\* how a parsers/__init__.py operation ends
Wrote(writer) == [kind |-> "return", exc |-> "", value |-> writer]
Failed(exc) == [kind |-> "raise", exc |-> exc, value |-> None]

\* parsers/__init__.py:53-65.  identify_file's exception passes through;
\* find_parser hands back None for a type with no parser and a list for a
\* chain, and parser.writer on either is an AttributeError.
write_metadata(extra, builtin, size, file, filetype) ==
    LET identified == identify_stream(extra, builtin, size, file)
        found == find_pluggable(extra, builtin, PARSERS, identified.value)
    IN  IF identified.kind = "raise" THEN Failed(identified.exc)
        ELSE IF identified.value = None THEN Failed("ParserException: Unknown file type")
        ELSE IF identified.value # filetype
        THEN Failed("ParserException: Metadata is not for this file type")
        ELSE IF ~found.found \/ found.chained THEN Failed("AttributeError")
        ELSE IF found.items[1].writer = None
        THEN Failed("ParserException: Cannot write metadata for this file type")
        ELSE Wrote(found.items[1].writer)

\* the file types a Metadata record is made for
MetadataTypes == { BuiltinIdentifiers[i].plugtype : i \in 1..Len(BuiltinIdentifiers) } \cup {"MOBI"}

\* parsers/__init__.py:53; one write per behaviour
WriteMetadata ==
    /\ call = NoCall
    /\ \E file \in Files, filetype \in MetadataTypes :
          call' = [op |-> "write_metadata", file |-> file, filetype |-> filetype,
                   result |-> write_metadata(extra_pluggables, builtin_pluggables,
                                             max_data_buffer_size, file, filetype)]
    /\ UNCHANGED <<extra_pluggables, builtin_pluggables, max_data_buffer_size, history, ebook>>

NextWrite == WriteMetadata
SpecWrite == Init /\ [][NextWrite]_vars

\* C14: write_metadata never writes; it fails with a parser error: unknown
\* file type when identification returns None, otherwise mismatched metadata
\* when the detected tag differs from metadata.filetype, otherwise unsupported
\* operation.
C14_WriteFails ==
    call.op = "write_metadata" =>
        LET identified == identify_stream(extra_pluggables, builtin_pluggables,
                                          max_data_buffer_size, call.file)
        IN  /\ call.result.kind = "raise"
            /\ call.result.exc =
                  IF identified.kind = "return" /\ identified.value = None
                  THEN "ParserException: Unknown file type"
                  ELSE IF identified.kind = "return" /\ identified.value # call.filetype
                  THEN "ParserException: Metadata is not for this file type"
                  ELSE "ParserException: Cannot write metadata for this file type"

\* ------------------------------------------------------------ EPUB reader

\* the most rootfile elements of a container.xml
MaxRootfiles == 2

\* epub.py:51: OPF2.mimetype
OpfMimetype == "application/oebps-package+xml"

\* A rootfile element the xpath of epub.py:61 selects: its media-type and
\* full-path attributes, None for an attribute it does not carry.
Rootfile(mediatype, fullpath) == [mediatype |-> mediatype, fullpath |-> fullpath]
Rootfiles ==
    { Rootfile(m, p) : m \in {OpfMimetype, "text/plain", None},
                       p \in {"content.opf", "gone.opf", None} }

\* the names of the archive besides META-INF/container.xml; an entry that is
\* there holds a package document parse_opf_xml reads
ArchiveNames == {"content.opf"}

\* A file handed to read_epub_metadata: whether ZipFile accepts it, what it
\* holds under META-INF/container.xml (no entry, zero bytes, bytes that are
\* not XML, or a document) and the rootfile elements of the document.
EpubFile(zip, container, rootfiles) ==
    [zip |-> zip, container |-> container, rootfiles |-> rootfiles]
EpubFiles ==
    { EpubFile(FALSE, "absent", << >>) } \cup
    { EpubFile(TRUE, c, << >>) : c \in {"absent", "empty", "malformed"} } \cup
    { EpubFile(TRUE, "xml", r) : r \in UNION { [1..n -> Rootfiles] : n \in 0..MaxRootfiles } }

\* how read_epub_metadata ends, and the handles it opened that are still open
EpubReturned(opf, open) == [kind |-> "return", exc |-> "", opf |-> opf, open |-> open]
EpubRaised(exc, open) == [kind |-> "raise", exc |-> exc, opf |-> None, open |-> open]

\* epub.py:66-73: the dict of media-type to full-path, a later rootfile
\* replacing an earlier one of the same media-type; malformed when a rootfile
\* lacks an attribute (the KeyError of line 69)
RECURSIVE ContainerFiles(_, _, _)
ContainerFiles(rootfiles, i, container_files) ==
    IF i > Len(rootfiles) THEN [malformed |-> FALSE, files |-> container_files]
    ELSE IF rootfiles[i].mediatype = None \/ rootfiles[i].fullpath = None
    THEN [malformed |-> TRUE, files |-> << >>]
    ELSE ContainerFiles(rootfiles, i + 1,
             [m \in DOMAIN container_files \cup {rootfiles[i].mediatype} |->
                 IF m = rootfiles[i].mediatype THEN rootfiles[i].fullpath
                 ELSE container_files[m]])

\* epub.py:38-55 with _parse_container_xml (57-73) and zip_reader (75-84).
\* ZipFile opens the file and closes it itself when it raises BadZipfile;
\* afterwards nothing closes the archive: the handle goes when the runtime
\* finalizes the ZipFile object, which has happened (collected) or not by
\* the time the call ends.
read_epub_metadata(f, collected) ==
    LET open == IF collected THEN {} ELSE {"archive"}
        container == ContainerFiles(f.rootfiles, 1, << >>)
        container_files == container.files
    IN  IF ~f.zip THEN EpubRaised("EPubException: not a ZIP .epub OCF container", {})
        ELSE IF f.container = "absent"
        THEN EpubRaised("EPubException: missing OCF container.xml", open)
        ELSE IF f.container = "empty" THEN EpubRaised("TypeError", open)
        ELSE IF f.container = "malformed" THEN EpubRaised("XMLSyntaxError", open)
        ELSE IF f.rootfiles = << >> THEN EpubRaised("EPubException: Invalid container.xml", open)
        ELSE IF container.malformed
        THEN EpubRaised("EPubException: <rootfile/> element malformed", open)
        ELSE IF OpfMimetype \notin DOMAIN container_files
        THEN EpubRaised("EPubException: missing OPF package file", open)
        ELSE IF container_files[OpfMimetype] \notin ArchiveNames
        THEN EpubRaised("EPubException: missing OPF package file", open)
        ELSE EpubReturned(container_files[OpfMimetype], open)

\* epub.py:38; one read per behaviour
ReadEpubMetadata ==
    /\ call = NoCall
    /\ \E f \in EpubFiles, collected \in BOOLEAN :
          call' = [op |-> "read_epub_metadata", file |-> f,
                   result |-> read_epub_metadata(f, collected)]
    /\ UNCHANGED <<extra_pluggables, builtin_pluggables, max_data_buffer_size, history, ebook>>

NextEpub == ReadEpubMetadata
SpecEpub == Init /\ [][NextEpub]_vars

\* C15: when a reader returns or fails, no file handle it opened is still open.
C15_HandlesReleased ==
    call.op = "read_epub_metadata" => call.result.open = {}

EpubErrors ==
    { "EPubException: not a ZIP .epub OCF container", "EPubException: missing OCF container.xml",
      "EPubException: Invalid container.xml", "EPubException: <rootfile/> element malformed",
      "EPubException: missing OPF package file" }

\* C17: read_epub_metadata returns a record only when container.xml exists,
\* declares at least one rootfile, every rootfile carries media-type and
\* full-path, one has the OPF media-type and its entry is in the archive; in
\* every other case, an empty container.xml included, it fails with an EPUB
\* parser error.
C17_EpubErrors ==
    call.op = "read_epub_metadata" =>
        LET f == call.file
            wellformed ==
                /\ f.zip
                /\ f.container = "xml"
                /\ Len(f.rootfiles) >= 1
                /\ \A i \in 1..Len(f.rootfiles) :
                      f.rootfiles[i].mediatype # None /\ f.rootfiles[i].fullpath # None
                /\ \E i \in 1..Len(f.rootfiles) :
                      /\ f.rootfiles[i].mediatype = OpfMimetype
                      /\ f.rootfiles[i].fullpath \in ArchiveNames
        IN  /\ call.result.kind = "return" => wellformed
            /\ call.result.kind = "raise" => call.result.exc \in EpubErrors

\* ------------------------------------------------------------ metadata records

\* metadata.py:80-84
EbookFields ==
    { "title", "title_sort", "authors", "author_sort", "contributors", "series",
      "series_index", "languages", "publisher", "rights", "date_published",
      "date_original", "identifiers", "description", "tags" }

\* A record is a function from its keys to their values; a value is a
\* sequence, a string being the sequence of its one text.

\* metadata.py:57-59: whether _check_field lets the field through
ValidField(field) == field = "filetype" \/ field \in EbookFields

\* dict.__setitem__
Put(d, key, value) == [k \in DOMAIN d \cup {key} |-> IF k = key THEN value ELSE d[k]]
\* dict.__delitem__ on a key the dict holds
Del(d, key) == [k \in DOMAIN d \ {key} |-> d[k]]

\* metadata.py:45-49 through EbookMetadata(filetype)
EbookMetadata(filetype) == [k \in {"filetype"} |-> <<filetype>>]

\* what an operation on a record ends with
RecordCall(op, key, raised, value) == [op |-> op, key |-> key, raised |-> raised, value |-> value]

\* the keys and values the operations are tried with: two fields of the
\* record, filetype and a name that is no field
RecordKeys == {"title", "tags", "filetype", "isbn"}
RecordValues == { << >>, <<"a">> }

\* a record exists once EbookMetadata(...) has run
HasRecord == ebook # << >>

NewEbookMetadata ==
    /\ \E filetype \in {"MOBI", "EPUB2"} :
          /\ ebook' = EbookMetadata(filetype)
          /\ call' = RecordCall("EbookMetadata", "filetype", FALSE, <<filetype>>)
    /\ UNCHANGED <<extra_pluggables, builtin_pluggables, max_data_buffer_size, history>>

\* metadata.py:68-70 and 31-32: ebook.key = value
SetAttr ==
    /\ HasRecord
    /\ \E key \in RecordKeys, value \in RecordValues :
          IF ValidField(key)
          THEN /\ ebook' = Put(ebook, key, value)
               /\ call' = RecordCall("__setattr__", key, FALSE, value)
          ELSE /\ ebook' = ebook
               /\ call' = RecordCall("__setattr__", key, TRUE, << >>)
    /\ UNCHANGED <<extra_pluggables, builtin_pluggables, max_data_buffer_size, history>>

\* metadata.py:61-66 and 25-29: ebook.key, None for a field not set
GetAttr ==
    /\ HasRecord
    /\ \E key \in RecordKeys :
          call' = IF ~ValidField(key) THEN RecordCall("__getattr__", key, TRUE, << >>)
                  ELSE IF key \in DOMAIN ebook THEN RecordCall("__getattr__", key, FALSE, ebook[key])
                  ELSE RecordCall("__getattr__", key, FALSE, <<None>>)
    /\ UNCHANGED <<extra_pluggables, builtin_pluggables, max_data_buffer_size, history, ebook>>

\* metadata.py:72-74 and 34-38: del ebook.key
DelAttr ==
    /\ HasRecord
    /\ \E key \in RecordKeys :
          IF ValidField(key) /\ key \in DOMAIN ebook
          THEN /\ ebook' = Del(ebook, key)
               /\ call' = RecordCall("__delattr__", key, FALSE, << >>)
          ELSE /\ ebook' = ebook
               /\ call' = RecordCall("__delattr__", key, TRUE, << >>)
    /\ UNCHANGED <<extra_pluggables, builtin_pluggables, max_data_buffer_size, history>>

\* metadata.py:19: Storage is a dict and the classes below it define no
\* __setitem__: ebook[key] = value
SetItem ==
    /\ HasRecord
    /\ \E key \in RecordKeys, value \in RecordValues :
          /\ ebook' = Put(ebook, key, value)
          /\ call' = RecordCall("__setitem__", key, FALSE, value)
    /\ UNCHANGED <<extra_pluggables, builtin_pluggables, max_data_buffer_size, history>>

\* dict.setdefault, as mobi.py:346-363 and opf.py:80-97 call it
SetDefault ==
    /\ HasRecord
    /\ \E key \in RecordKeys, default \in RecordValues :
          IF key \in DOMAIN ebook
          THEN /\ ebook' = ebook
               /\ call' = RecordCall("setdefault", key, FALSE, ebook[key])
          ELSE /\ ebook' = Put(ebook, key, default)
               /\ call' = RecordCall("setdefault", key, FALSE, default)
    /\ UNCHANGED <<extra_pluggables, builtin_pluggables, max_data_buffer_size, history>>

NextEbook == NewEbookMetadata \/ SetAttr \/ GetAttr \/ DelAttr \/ SetItem \/ SetDefault
SpecEbook == Init /\ [][NextEbook]_vars

\* C16: an ebook record only ever holds fields of its attribute set (plus
\* filetype): through attribute set, get and delete, item assignment and
\* setdefault an unknown field name is rejected and never becomes a key.
C16_RestrictedFields ==
    /\ DOMAIN ebook \subseteq EbookFields \cup {"filetype"}
    /\ (call.op \in {"__setattr__", "__getattr__", "__delattr__", "__setitem__", "setdefault"}
          /\ ~ValidField(call.key)) => call.raised

\* ------------------------------------------------------------ OPF processor

\* A text is the sequence of its tokens: words, the blank " " and the
\* separators "," ";" "and" "with" "&".

\* str.strip(): the blanks at both ends go
RECURSIVE LStrip(_)
LStrip(text) == IF text # << >> /\ Head(text) = " " THEN LStrip(Tail(text)) ELSE text
RECURSIVE RStrip(_)
RStrip(text) ==
    IF text # << >> /\ text[Len(text)] = " " THEN RStrip(SubSeq(text, 1, Len(text) - 1))
    ELSE text
Strip(text) == RStrip(LStrip(text))

\* str.split(sep) for the separators in seps: the pieces between them, an
\* empty piece where two meet or the text ends on one
RECURSIVE SplitFrom(_, _, _, _)
SplitFrom(text, i, seps, piece) ==
    IF i > Len(text) THEN <<piece>>
    ELSE IF text[i] \in seps THEN <<piece>> \o SplitFrom(text, i + 1, seps, << >>)
    ELSE SplitFrom(text, i + 1, seps, Append(piece, text[i]))
Split(text, seps) == SplitFrom(text, 1, seps, << >>)

\* [ x.strip() for x in pieces ]
StripAll(pieces) == [k \in 1..Len(pieces) |-> Strip(pieces[k])]

\* biblio.ebook.parse_ebook_authors is imported at opf.py:96 and mobi.py:351
\* and defined in no file of the repository; by its description it splits a
\* text on ";", "and", "with" and "&" into the names
parse_ebook_authors(text) ==
    LET NonEmpty(piece) == piece # << >>
    IN  SelectSeq(StripAll(Split(text, {";", "and", "with", "&"})), NonEmpty)

\* the attribute names process_opf_metadata looks at
RoleAttr == "role"
OpfRoleAttr == "{http://www.idpf.org/2007/opf}role"
SchemeAttr == "{http://www.idpf.org/2007/opf}scheme"
NameAttr == "name"
ContentAttr == "content"

\* the tags process_opf_metadata knows: the Dublin Core elements and opf:meta
DcTags == { "dc:title", "dc:publisher", "dc:date", "dc:description", "dc:rights",
            "dc:language", "dc:subject", "dc:identifier", "dc:creator" }
MetaTag == "opf:meta"

\* an element of the metadata section as parse_opf_xml keeps it (opf.py:60):
\* (el.tag, el.attrib, el.text), the attributes a function from name to value
Element(tag, attribs, text) == [tag |-> tag, attribs |-> attribs, text |-> text]

\* a slip in opf.py:91-95: the namespaced role attribute is not looked at
IncludesCreatorPlainRoleOnly(attribs) ==
    \/ RoleAttr \in DOMAIN attribs /\ attribs[RoleAttr] = "aut"
    \/ RoleAttr \notin DOMAIN attribs

\* opf.py:91-95: whether a creator element goes into authors
IncludesCreator(attribs) ==
    \/ RoleAttr \in DOMAIN attribs /\ attribs[RoleAttr] = "aut"
    \/ OpfRoleAttr \in DOMAIN attribs /\ attribs[OpfRoleAttr] = "aut"
    \/ RoleAttr \notin DOMAIN attribs /\ OpfRoleAttr \notin DOMAIN attribs

\* ebook.setdefault(key, []).extend(values)
Extend(record, key, values) ==
    Put(record, key, (IF key \in DOMAIN record THEN record[key] ELSE << >>) \o values)

\* opf.py:73-74: biblio.ebook.parse_ebook_date is defined in no file of the
\* repository; its value is kept as the call it would be
parse_ebook_date(text) == <<"parse_ebook_date", text>>

\* float(content): the text of a number or ValueError
IsNumber(content) == content \in { <<"1">>, <<"2">> }

\* how far process_opf_metadata got: the record, and the exception if one
\* ended it
Processed(record) == [raised |-> None, ebook |-> record]
ProcessFailed(exc, record) == [raised |-> exc, ebook |-> record]

\* opf.py:79-84: every attribute whose name ends in "scheme" files the text
\* under the lowered value (the values modelled are lower case already)
SchemeAttrs(attribs) == DOMAIN attribs \cap {SchemeAttr}
Identifiers(record, attribs, text) ==
    IF SchemeAttrs(attribs) = {} THEN record
    ELSE LET held == IF "identifiers" \in DOMAIN record THEN record["identifiers"] ELSE << >>
         IN  Put(record, "identifiers", Put(held, attribs[SchemeAttr], Strip(text)))

\* opf.py:67-105, one element
ProcessElement(record, el) ==
    IF el.tag = "dc:title" THEN Processed(Put(record, "title", Strip(el.text)))
    ELSE IF el.tag = "dc:publisher" THEN Processed(Put(record, "publisher", Strip(el.text)))
    ELSE IF el.tag = "dc:date"
    THEN Processed(Put(record, "date_published", parse_ebook_date(Strip(el.text))))
    ELSE IF el.tag = "dc:description"
    THEN Processed(Put(record, "description", Strip(el.text)))
    ELSE IF el.tag = "dc:rights" THEN Processed(Put(record, "rights", Strip(el.text)))
    ELSE IF el.tag = "dc:language"
    THEN Processed(Extend(record, "languages", <<Strip(el.text)>>))
    ELSE IF el.tag = "dc:subject"
    THEN IF Strip(el.text) # << >>
         THEN Processed(Extend(record, "tags", StripAll(Split(el.text, {","}))))
         ELSE Processed(record)
    ELSE IF el.tag = "dc:identifier"
    THEN IF Strip(el.text) # << >>
         THEN Processed(Identifiers(record, el.attribs, el.text))
         ELSE Processed(record)
    ELSE IF el.tag = "dc:creator"
    THEN IF IncludesCreator(el.attribs)
         THEN Processed(Extend(record, "authors", parse_ebook_authors(el.text)))
         ELSE Processed(record)
    ELSE IF el.tag = MetaTag
    THEN IF ~(NameAttr \in DOMAIN el.attribs /\ ContentAttr \in DOMAIN el.attribs)
         THEN Processed(record)
         ELSE IF el.attribs[NameAttr] = "calibre:series"
         THEN Processed(Put(record, "series", Strip(el.attribs[ContentAttr])))
         ELSE IF el.attribs[NameAttr] = "calibre:series_index"
         THEN IF IsNumber(Strip(el.attribs[ContentAttr]))
              THEN Processed(Put(record, "series_index",
                                 <<"float">> \o Strip(el.attribs[ContentAttr])))
              ELSE ProcessFailed("ValueError", record)
         ELSE Processed(record)
    ELSE Processed(record)

\* opf.py:66-107: the elements in document order, up to the first that raises
RECURSIVE process_opf_metadata(_, _, _)
process_opf_metadata(metadata, i, record) ==
    IF i > Len(metadata) THEN Processed(record)
    ELSE LET step == ProcessElement(record, metadata[i])
         IN  IF step.raised # None THEN step
             ELSE process_opf_metadata(metadata, i + 1, step.ebook)

\* how many elements the metadata section of a package modelled holds
MaxElements == 2

\* the role attributes a creator comes with: each of the two absent, "aut"
\* or another role
RoleValues == {"aut", "edt"}
CreatorAttribs ==
    { << >> }
      \cup { (RoleAttr :> r) : r \in RoleValues }
      \cup { (OpfRoleAttr :> r) : r \in RoleValues }
      \cup { (RoleAttr :> r) @@ (OpfRoleAttr :> o) : r \in RoleValues, o \in RoleValues }
CreatorTexts == { <<"A">>, <<"A", " ", "and", " ", "B">> }
Creators == { Element("dc:creator", a, t) : a \in CreatorAttribs, t \in CreatorTexts }

\* the other elements: one of each kind, a series index that is a number and
\* one that is none, and an element of a tag the processor passes over
OtherElements ==
    { Element("dc:title", << >>, <<" ", "T">>),
      Element("dc:date", << >>, <<"2011">>),
      Element("dc:language", << >>, <<"en">>),
      Element("dc:subject", << >>, <<"x", ",", " ", "y">>),
      Element("dc:identifier", (SchemeAttr :> "isbn"), <<"123">>),
      Element(MetaTag, (NameAttr :> "calibre:series") @@ (ContentAttr :> <<"S">>), << >>),
      Element(MetaTag, (NameAttr :> "calibre:series_index") @@ (ContentAttr :> <<"1">>), << >>),
      Element(MetaTag, (NameAttr :> "calibre:series_index") @@ (ContentAttr :> <<"x">>), << >>),
      Element("dc:contributor", << >>, <<"C">>) }

RECURSIVE SeqsUpTo(_, _)
SeqsUpTo(S, n) ==
    IF n = 0 THEN { << >> }
    ELSE LET shorter == SeqsUpTo(S, n - 1)
         IN  shorter \cup { Append(q, x) : q \in shorter, x \in S }

\* the metadata the reader hands over: no package, a package without a
\* metadata section, or the elements of the section
NoOpf == [opf |-> FALSE, section |-> FALSE, metadata |-> << >>]
NoSection == [opf |-> TRUE, section |-> FALSE, metadata |-> << >>]
Section(metadata) == [opf |-> TRUE, section |-> TRUE, metadata |-> metadata]
EpubMetadatas ==
    {NoOpf, NoSection} \cup { Section(m) : m \in SeqsUpTo(Creators \cup OtherElements, MaxElements) }

\* epub.py:88-95: a new record, the package's metadata worked into it;
\* metadata.opf.metadata of a package without the section is AttributeError
\* (metadata.py:27-31)
process_epub_metadata(metadata) ==
    IF ~metadata.opf THEN Processed(EbookMetadata("EPUB2"))
    ELSE IF ~metadata.section THEN ProcessFailed("AttributeError", EbookMetadata("EPUB2"))
    ELSE process_opf_metadata(metadata.metadata, 1, EbookMetadata("EPUB2"))

ProcessEpubMetadata ==
    /\ call = NoCall
    /\ \E metadata \in EpubMetadatas :
          LET result == process_epub_metadata(metadata)
          IN  /\ ebook' = result.ebook
              /\ call' = [op |-> "process_epub_metadata", metadata |-> metadata,
                          raised |-> result.raised]
    /\ UNCHANGED <<extra_pluggables, builtin_pluggables, max_data_buffer_size, history>>

NextOpf == ProcessEpubMetadata
SpecOpf == Init /\ [][NextOpf]_vars

\* the names of the creators of a section that pass for authors, in document
\* order
RECURSIVE AuthorsOf(_, _)
AuthorsOf(metadata, i) ==
    IF i > Len(metadata) THEN << >>
    ELSE LET el == metadata[i]
             plain == IF RoleAttr \in DOMAIN el.attribs THEN {el.attribs[RoleAttr]} ELSE {}
             opf == IF OpfRoleAttr \in DOMAIN el.attribs THEN {el.attribs[OpfRoleAttr]} ELSE {}
             counts == el.tag = "dc:creator" /\ ("aut" \in plain \cup opf \/ plain \cup opf = {})
         IN  (IF counts THEN parse_ebook_authors(el.text) ELSE << >>) \o AuthorsOf(metadata, i + 1)

\* C18: after a package's metadata is processed, authors holds the names of
\* exactly the creator elements whose role attribute, plain or namespaced,
\* is "aut" or which carry no role attribute at all, in document order; a
\* creator with only other roles adds nothing.
C18_AuthorFilter ==
    (call.op = "process_epub_metadata" /\ call.metadata.section /\ call.raised = None)
        => LET authors == IF "authors" \in DOMAIN ebook THEN ebook["authors"] ELSE << >>
           IN  authors = AuthorsOf(call.metadata.metadata, 1)

\* a section with a creator whose namespaced role is "aut" and one whose
\* role is another has been processed
C18_Witness ==
    /\ call.op = "process_epub_metadata"
    /\ call.raised = None
    /\ call.metadata.section
    /\ \E i, j \in 1..Len(call.metadata.metadata) :
          LET a == call.metadata.metadata[i]
              b == call.metadata.metadata[j]
          IN  /\ a.tag = "dc:creator" /\ b.tag = "dc:creator"
              /\ OpfRoleAttr \in DOMAIN a.attribs /\ a.attribs[OpfRoleAttr] = "aut"
              /\ RoleAttr \notin DOMAIN a.attribs
              /\ DOMAIN b.attribs # {} /\ \A k \in DOMAIN b.attribs : b.attribs[k] # "aut"
    /\ "authors" \in DOMAIN ebook
    /\ Len(ebook["authors"]) \in 1..2

\* ----------------------------------------------------------- MOBI processor

\* how many EXTH records the header of a book modelled holds
MaxExthRecords == 2

\* Bytes are tokens too: "\x81" is a byte neither codec decodes, "\xe9" is
\* e acute in cp1252 and a broken sequence in utf-8; every other token is
\* ASCII. errors is 'ignore' (the byte goes) or 'replace' (U+FFFD stands
\* for it).
Undecodable(codec, byte) == byte = "\\x81" \/ (byte = "\\xe9" /\ codec = "utf-8")
DecodeByte(codec, errors, byte) ==
    IF Undecodable(codec, byte)
    THEN IF errors = "replace" THEN <<"U+FFFD">> ELSE << >>
    ELSE IF byte = "\\xe9" THEN <<"e-acute">> ELSE <<byte>>
RECURSIVE Decode(_, _, _)
Decode(data, codec, errors) ==
    IF data = << >> THEN << >>
    ELSE DecodeByte(codec, errors, Head(data)) \o Decode(Tail(data), codec, errors)

\* mobi.py:334-339: the codec of the strings, cp1252 unless text_encoding
\* names another
Codec(mobi) ==
    IF mobi.text_encoding = 65001 THEN "utf-8" ELSE "cp1252"

\* str.replace(old, ''): every token old goes
RECURSIVE Remove(_, _)
Remove(text, old) ==
    IF text = << >> THEN << >>
    ELSE (IF Head(text) = old THEN << >> ELSE <<Head(text)>>) \o Remove(Tail(text), old)

\* mobi.py:344: the NUL bytes go from the database name and every run of
\* characters outside [-A-Za-z0-9"";:., ] ("#" here) becomes one "_"
RECURSIVE Underscore(_, _)
Underscore(text, inrun) ==
    IF text = << >> THEN << >>
    ELSE IF Head(text) = "#"
    THEN (IF inrun THEN << >> ELSE <<"_">>) \o Underscore(Tail(text), TRUE)
    ELSE <<Head(text)>> \o Underscore(Tail(text), FALSE)
SanitizedName(name) == Underscore(Remove(name, "\\x00"), FALSE)

\* biblio.util.xmlunicode.replace_entities is imported by mobi.py and defined
\* in no file of the repository; by its description an entity of the title
\* gives way to its character
RECURSIVE replace_entities(_, _)
replace_entities(title, codec) ==
    IF title = << >> THEN << >>
    ELSE <<IF Head(title) = "&amp;" THEN "&" ELSE Head(title)>> \o replace_entities(Tail(title), codec)

\* list(set(tags)): each distinct tag once, in the order the set iterates,
\* which follows the hashes and not the insertions; setorder is that order
\* over all tags
ListOfSet(tags, setorder) ==
    LET Held(t) == \E k \in 1..Len(tags) : tags[k] = t
    IN  SelectSeq(setorder, Held)

\* an EXTH record as _parse_exth_header keeps it (mobi.py:300-323)
ExthRecord(type, data) == [type |-> type, data |-> data]

\* mobi.py:349-374: one EXTH record
ProcessRecord(record, r, codec, setorder) ==
    LET text == Decode(r.data, codec, "ignore")
    IN  IF r.type = 100 THEN Extend(record, "authors", parse_ebook_authors(Strip(text)))
        ELSE IF r.type = 101 THEN Put(record, "publisher", Strip(text))
        ELSE IF r.type = 103 THEN Put(record, "description", text)
        ELSE IF r.type = 104
        THEN LET held == IF "identifiers" \in DOMAIN record THEN record["identifiers"] ELSE << >>
             IN  Put(record, "identifiers", Put(held, "isbn", Remove(Strip(text), "-")))
        ELSE IF r.type = 105
        THEN LET extended == Extend(record, "tags", StripAll(Split(text, {";"})))
             IN  Put(extended, "tags", ListOfSet(extended["tags"], setorder))
        ELSE IF r.type = 106 THEN Put(record, "date_published", parse_ebook_date(text))
        ELSE IF r.type = 109 THEN Put(record, "rights", text)
        ELSE IF r.type = 503 THEN Put(record, "title", text)
        ELSE record

RECURSIVE ProcessRecords(_, _, _, _, _)
ProcessRecords(records, i, record, codec, setorder) ==
    IF i > Len(records) THEN record
    ELSE ProcessRecords(records, i + 1, ProcessRecord(record, records[i], codec, setorder),
                        codec, setorder)

\* what the reader hands over (mobi.py:211-227): the database name, and the
\* MOBI header if the book has one: text_encoding, fullname (or none),
\* locale and the EXTH records (or no EXTH header)
NoMobi(name) == [mobi |-> FALSE, short |-> FALSE, name |-> name]
Mobi(name, text_encoding, fullname, locale, exth) ==
    [mobi |-> TRUE, short |-> FALSE, name |-> name, text_encoding |-> text_encoding,
     fullname |-> fullname, locale |-> locale, exth |-> exth]
NoFullname == [present |-> FALSE, data |-> << >>]
Fullname(data) == [present |-> TRUE, data |-> data]
NoExth == [present |-> FALSE, records |-> << >>]
Exth(records) == [present |-> TRUE, records |-> records]

\* the MOBI header of 16 bytes (mobi.py:241-243): none of text_encoding,
\* fullname, locale and exth is set
ShortMobi(name) ==
    [mobi |-> TRUE, short |-> TRUE, name |-> name, text_encoding |-> 0,
     fullname |-> NoFullname, locale |-> 0, exth |-> NoExth]

\* mobi.py:327-379; language is mobi2iana_language(metadata.mobi.locale), and
\* metadata.mobi.locale of a header without the field is AttributeError
\* (metadata.py:25-29), which line 346 does not catch
process_mobi_metadata(metadata, language, setorder) ==
    LET new == EbookMetadata("MOBI")
    IN  IF ~metadata.mobi THEN Processed(new)
        ELSE LET codec == Codec(metadata)
                 title == IF metadata.fullname.present
                          THEN Decode(metadata.fullname.data, codec, "replace")
                          ELSE SanitizedName(metadata.name)
                 titled == Extend(Put(new, "title", title), "languages", <<language>>)
                 done == IF metadata.exth.present
                         THEN ProcessRecords(metadata.exth.records, 1, titled, codec, setorder)
                         ELSE titled
             IN  IF metadata.short THEN ProcessFailed("AttributeError", Put(new, "title", title))
                 ELSE IF done["title"] # << >>
                 THEN Processed(Put(done, "title", replace_entities(done["title"], codec)))
                 ELSE Processed(done)

\* the EXTH records tried: four tag records that repeat and reorder the tags
\* a, b and c, and one record of each other type the processor knows, 108
\* and a type it passes over included
TagRecords ==
    { ExthRecord(105, <<"b", ";", "a">>),
      ExthRecord(105, <<"a">>),
      ExthRecord(105, <<"b", ";", " ", "b">>),
      ExthRecord(105, <<"c", " ", ";", "a">>) }
OtherRecords ==
    { ExthRecord(100, <<"A", " ", "and", " ", "B">>),
      ExthRecord(101, <<" ", "P", "\\xe9">>),
      ExthRecord(103, <<"D", "\\x81">>),
      ExthRecord(104, <<"1", "-", "2">>),
      ExthRecord(106, <<"2011">>),
      ExthRecord(108, <<"C">>),
      ExthRecord(109, <<"R">>),
      ExthRecord(503, <<"T", "&amp;">>),
      ExthRecord(999, <<"x">>) }

\* the tags of TagRecords and the orders a set of them may come out in
TagUniverse == { <<"a">>, <<"b">>, <<"c">> }
SetOrders ==
    { o \in [1..Cardinality(TagUniverse) -> TagUniverse] :
        \A i, j \in 1..Cardinality(TagUniverse) : o[i] = o[j] => i = j }

\* the header fields tried: the two code pages the processor knows and one
\* it does not, a full name or none, English and a language id of no table
\* row
TextEncodings == {1252, 65001, 437}
Fullnames == { NoFullname, Fullname(<<"F", "\\x81">>) }
MobiLocales == {9, 255}
MobiOrders == { Order(0, r, r) : r \in BOOLEAN }
MobiHeaders(locale) ==
    { Mobi(<<"N", "\\x00", "#", "#">>, e, f, locale, x) :
        e \in TextEncodings, f \in Fullnames,
        x \in {NoExth} \cup { Exth(rs) : rs \in SeqsUpTo(TagRecords \cup OtherRecords, MaxExthRecords) } }
MobiMetadatas(locale) ==
    { NoMobi(<<"N", "\\x00", "#", "#">>), ShortMobi(<<"N", "\\x00", "#", "#">>) }
        \cup MobiHeaders(locale)

\* mobi.py:327; one book per behaviour
ProcessMobiMetadata ==
    /\ call = NoCall
    /\ \E order \in MobiOrders, locale \in MobiLocales :
          \E language \in { mobi2iana_language(order, locale) } :
             \E setorder \in SetOrders, metadata \in MobiMetadatas(locale) :
                LET result == process_mobi_metadata(metadata, language, setorder)
                IN  /\ ebook' = result.ebook
                    /\ call' = [op |-> "process_mobi_metadata", metadata |-> metadata,
                                raised |-> result.raised]
    /\ UNCHANGED <<extra_pluggables, builtin_pluggables, max_data_buffer_size, history>>

NextMobi == ProcessMobiMetadata
SpecMobi == Init /\ [][NextMobi]_vars

\* the tags of the type-105 records of a header, as the processor splits
\* them, record after record
RECURSIVE TagsOf(_, _, _)
TagsOf(records, i, codec) ==
    IF i > Len(records) THEN << >>
    ELSE (IF records[i].type = 105
          THEN StripAll(Split(Decode(records[i].data, codec, "ignore"), {";"}))
          ELSE << >>) \o TagsOf(records, i + 1, codec)

\* a list without its repetitions, each element where it first occurs
RECURSIVE FirstOccurrences(_)
FirstOccurrences(tags) ==
    IF tags = << >> THEN << >>
    ELSE LET before == FirstOccurrences(SubSeq(tags, 1, Len(tags) - 1))
             last == tags[Len(tags)]
         IN  IF \E k \in 1..Len(before) : before[k] = last THEN before ELSE Append(before, last)

\* C19: after process_mobi_metadata, tags holds each distinct tag of the
\* type-105 EXTH records exactly once, in the order of first occurrence
\* across the records.
C19_TagsInsertionOrder ==
    (call.op = "process_mobi_metadata" /\ call.metadata.mobi /\ "tags" \in DOMAIN ebook)
        => ebook["tags"] =
              FirstOccurrences(TagsOf(call.metadata.exth.records, 1, Codec(call.metadata)))

\* ------------------------------------------------- biblio.identify (the lists)

\* identify/__init__.py:154-203 with builtin=True: the entry appended to
\* __builtin_magic_identifiers, (identifier, filetype, text, binary)
ami(identifier, filetype, text, binary) ==
    Reg(filetype, [text |-> text, binary |-> binary, rules |-> identifier])

\* identify/builtins.py:27-102, one program per shape, in the table's order:
\*   28 M4A     a literal where the ZIP programs read their version byte
\*   30 ID3V22  a literal, then a struct
\*   59 MOBI    a literal beyond the bytes the EPUB2 program reads
\*   69 EPUB2   two literals at absolute offsets, the first shared with ZIP
\*   82 MKV     a struct, a search, then a literal at a relative offset
\*   87 ZIP09   a literal, then a one-byte struct
\*   94 OPF2, 96 XHTML, 98-99 HTML, 102 XML: the text programs
\* __extra_magic_identifiers stays empty: with builtin=False line 162 binds
\* "identifirs" and line 201 fails on the unbound "identifiers".
BuiltinMagicIdentifiers == <<
    ami(<<StringRule(IntOff(1), <<80>>)>>, "M4A", FALSE, TRUE),
    ami(<<StringRule(IntOff(0), <<60>>), StructRule(IntOff(1), "bb", <<0, 0>>)>>, "ID3V22", FALSE, TRUE),
    ami(<<StringRule(IntOff(3), <<80>>)>>, "MOBI", FALSE, TRUE),
    ami(<<StringRule(IntOff(0), <<80>>), StringRule(IntOff(2), <<60>>)>>, "EPUB2", FALSE, TRUE),
    ami(<<StructRule(IntOff(0), ">b", <<0>>), SearchRule(IntOff(1), Window, <<0>>),
          StringRule(StrOff("+", 1), <<80>>)>>, "MKV", FALSE, TRUE),
    ami(<<StringRule(IntOff(0), <<80>>), StructRule(IntOff(1), ">b", <<0>>)>>, "ZIP09", FALSE, TRUE),
    ami(<<StringRule(IntOff(0), <<60>>),
          RegexRule(IntOff(1), Window, [pre |-> <<80>>, notc |-> 60, post |-> << >>])>>,
        "OPF2", TRUE, FALSE),
    ami(<<StringRule(IntOff(0), <<60>>), SearchRule(IntOff(3), Window, <<60, 80>>)>>,
        "XHTML", TRUE, FALSE),
    ami(<<SearchRule(IntOff(0), Window, <<60, 80>>)>>, "HTML", TRUE, FALSE),
    ami(<<SearchRule(IntOff(0), Window, <<80, 60>>)>>, "HTML", TRUE, FALSE),
    ami(<<StringRule(IntOff(0), <<60>>)>>, "XML", TRUE, FALSE) >>

\* identify/__init__.py:199-200: __max_data_buffer_size once the table is in
MagicBufferSize == BuildAll(BuiltinMagicIdentifiers, 1, 0)

\* identify/__init__.py:76-146, the identify_stream of biblio.identify, and
\* its identify_file (148-150): the extra list, then the builtin list
magic_identify_stream(extra, builtin, size, file) ==
    LET data == ReadPrefix(file, size)
    IN  IdentifyFrom(extra \o builtin, 1, data, file, Len(data), is_text(data), << >>)

MagicFiles == UNION { [1..n -> Alphabet] : n \in 0..(MagicBufferSize + MaxTail) }

\* identify/__init__.py:148; one file per behaviour
IdentifyMagicFile ==
    /\ call = NoCall
    /\ \E file \in MagicFiles :
          call' = [op |-> "identify.identify_file", file |-> file,
                   data |-> ReadPrefix(file, MagicBufferSize),
                   result |-> magic_identify_stream(<< >>, BuiltinMagicIdentifiers,
                                                    MagicBufferSize, file)]
    /\ UNCHANGED <<extra_pluggables, builtin_pluggables, max_data_buffer_size, history, ebook>>

\* both ways of identifying a file, with the start-up tables only
NextTables == IdentifyFile \/ IdentifyMagicFile
SpecTables == Init /\ [][NextTables]_vars

\* ------------------------------------------------------------ EPUB before ZIP

\* the candidates the last call walked, in its order
Walked ==
    IF call.op = "identify.identify_file" THEN BuiltinMagicIdentifiers ELSE Candidates

\* the positions, in that order, of the candidates registered under a tag
PositionsOf(tag) == { i \in 1..Len(Walked) : Walked[i].plugtype = tag }

\* all rules of some program registered under the tag succeed on the buffer
Satisfies(tag, data, file) ==
    \E i \in PositionsOf(tag) :
        test_identifier_rules(Walked[i].pluggable, data, file, Len(data)).res = "True"

\* a file was identified, by either module, and its buffer is binary and
\* carries the EPUB literals
EpubIdentified ==
    /\ call.op \in {"identify_file", "identify.identify_file"}
    /\ ~is_text(call.data)
    /\ Satisfies("EPUB2", call.data, call.file)

\* C20 as stated: with only the builtin programs registered, every binary
\* buffer that carries the EPUB literals is identified as EPUB2.
C20_EpubBeforeZipAsStated ==
    EpubIdentified => (call.result.kind = "return" /\ call.result.value = "EPUB2")

\* C20, amended: with only the builtin programs registered, a binary buffer
\* that carries the EPUB literals is never identified as ZIP and no ZIP
\* program is run on it, the EPUB2 program standing before the ZIP programs
\* in both tables; biblio.identifiers returns EPUB2, and biblio.identify
\* returns EPUB2 unless a program that stands before EPUB2 in its table
\* matches the buffer too, whose tag it then returns.
C20_EpubBeforeZip ==
    EpubIdentified =>
        /\ call.result.kind = "return"
        /\ call.result.value # "ZIP09"
        /\ \A e \in PositionsOf("EPUB2"), z \in PositionsOf("ZIP09") :
              e < z /\ \A k \in 1..Len(call.result.tried) : call.result.tried[k] # z
        /\ call.op = "identify_file" => call.result.value = "EPUB2"
        /\ call.op = "identify.identify_file" =>
              \/ call.result.value = "EPUB2"
              \/ \A e \in PositionsOf("EPUB2") : call.result.matched < e

\* a buffer that satisfies the EPUB2 program and the ZIP09 program was
\* identified through biblio.identifiers, as EPUB2
C20_Witness ==
    /\ EpubIdentified
    /\ call.op = "identify_file"
    /\ Satisfies("ZIP09", call.data, call.file)
    /\ call.result.value = "EPUB2"

\* ------------------------------------------------------------- MOBI reader

\* struct.unpack('>L', four bytes)
U32(b) == ((b[1] * 256 + b[2]) * 256 + b[3]) * 256 + b[4]

\* where the loop of _parse_exth_header stands (mobi.py:309-323): the bytes
\* after the 12 of the EXTH header, the position, the records still to read,
\* the records read, and the exception that ended it, if one did
ExthState(exthdata, pos, records_left, records, exc) ==
    [exthdata |-> exthdata, pos |-> pos, records_left |-> records_left,
     records |-> records, exc |-> exc]

\* a slip in mobi.py:314: the count goes down only for a record that moves
\* the position
RecordsLeftUnlessEmpty(records_left, length) ==
    IF length = 0 THEN records_left ELSE records_left - 1

\* mobi.py:314: records_left -= 1
RecordsLeft(records_left, length) == records_left - 1

\* mobi.py:314-321: one turn of the loop; struct.unpack raises struct.error
\* when fewer than 8 bytes are left at pos
ExthTurn(s) ==
    LET head == PySlice(s.exthdata, s.pos, s.pos + 8)
    IN  IF Len(head) # 8
        THEN ExthState(s.exthdata, s.pos, s.records_left - 1, s.records, "struct.error")
        ELSE LET type == U32(SubSeq(head, 1, 4))
                 length == U32(SubSeq(head, 5, 8))
                 record == [type |-> type, length |-> length,
                            data |-> PySlice(s.exthdata, s.pos + 8, s.pos + length)]
             IN  ExthState(s.exthdata, s.pos + length, RecordsLeft(s.records_left, length),
                           Append(s.records, record), None)

\* mobi.py:313: while records_left > 0
ExthRunning(s) == s.exc = None /\ s.records_left > 0

RECURSIVE ExthLoop(_)
ExthLoop(s) == IF ExthRunning(s) THEN ExthLoop(ExthTurn(s)) ELSE s

\* mobi.py:300-311: the EXTH header, 12 bytes of which the last four are
\* record_count; struct.error when the bytes are not there
ExthStart(raw) ==
    IF Len(PySlice(raw, 0, 12)) # 12 THEN ExthState(<< >>, 0, 0, << >>, "struct.error")
    ELSE ExthState(PyTail(raw, 12), 0, U32(SubSeq(raw, 9, 12)), << >>, None)

\* mobi.py:300-323
_parse_exth_header(raw) == ExthLoop(ExthStart(raw))

\* struct.pack('>L', n)
Packed32(n) == <<n \div 16777216, (n \div 65536) % 256, (n \div 256) % 256, n % 256>>

\* the bytes of one EXTH record: type, length and a payload of so many bytes
ExthBytes(type, length, payload) ==
    Packed32(type) \o Packed32(length) \o [k \in 1..payload |-> 97]

\* the record lengths tried: 0 and 4 (below the 8 bytes of type and length),
\* 8 (no data) and 9, 10 (one and two bytes of data); the payload that
\* follows has 0 to 2 bytes, whatever the length field says
ExthLengths == {0, 4, 8, 9, 10}
ExthChunks == { ExthBytes(105, l, p) : l \in ExthLengths, p \in 0..2 }

RECURSIVE Concat(_)
Concat(chunks) == IF chunks = << >> THEN << >> ELSE Head(chunks) \o Concat(Tail(chunks))

\* the EXTH blocks tried: "EXTH", a header length, a record_count of 0 up to
\* one more than the records that follow, and a block cut short of its header
ExthRaws ==
    { <<69, 88, 84, 72>> \o Packed32(12) \o Packed32(n) \o Concat(cs) :
        n \in 0..(MaxExthRecords + 1), cs \in SeqsUpTo(ExthChunks, MaxExthRecords) }
    \cup { <<69, 88, 84, 72>> }

\* mobi.py:300-311, the call of _parse_exth_header; the loop is then taken
\* turn by turn
ParseExthHeader ==
    /\ call = NoCall
    /\ \E raw \in ExthRaws :
          call' = [op |-> "_parse_exth_header", raw |-> raw, s |-> ExthStart(raw),
                   turns |-> 0, done |-> FALSE]
    /\ UNCHANGED <<extra_pluggables, builtin_pluggables, max_data_buffer_size, history, ebook>>

\* mobi.py:313-321, one turn
ExthTurnTaken ==
    /\ call.op = "_parse_exth_header"
    /\ ~call.done
    /\ ExthRunning(call.s)
    /\ call' = [call EXCEPT !.s = ExthTurn(call.s), !.turns = call.turns + 1]
    /\ UNCHANGED <<extra_pluggables, builtin_pluggables, max_data_buffer_size, history, ebook>>

\* mobi.py:322-323 or the struct.error leaving the function
ExthReturn ==
    /\ call.op = "_parse_exth_header"
    /\ ~call.done
    /\ ~ExthRunning(call.s)
    /\ call' = [call EXCEPT !.done = TRUE]
    /\ UNCHANGED <<extra_pluggables, builtin_pluggables, max_data_buffer_size, history, ebook>>

NextExth == ParseExthHeader \/ ExthTurnTaken \/ ExthReturn
SpecExth == Init /\ [][NextExth]_vars

\* the record_count field of the block being decoded
RecordCount == IF Len(call.raw) >= 12 THEN U32(SubSeq(call.raw, 9, 12)) ELSE 0

\* C26: EXTH decoding terminates on every input: every turn of the record
\* loop lowers the count of records left by one, the count never falls
\* below zero, and no more than record_count turns are taken, whatever the
\* record lengths are; the loop ends with a records list or with an error.
C26_ExthTerminates ==
    [][(call.op = "_parse_exth_header" /\ call'.op = "_parse_exth_header")
          => /\ call'.turns <= RecordCount
             /\ call'.s.records_left >= 0
             /\ call'.turns + call'.s.records_left = RecordCount
             /\ call'.done => (call'.s.exc # None \/ Len(call'.s.records) = RecordCount)]_vars

\* the loop ended with a records list of two records or more although the
\* first record read has length 0, which leaves the position where it was
C26_Witness ==
    /\ call.op = "_parse_exth_header"
    /\ call.done
    /\ call.s.exc = None
    /\ Len(call.s.records) >= 2
    /\ call.s.records[1].length = 0
    /\ call.s.pos = 0

\* C27: EXTH decoding never returns a records list that holds a record whose
\* length field is below 8.
C27_ShortRecordFatal ==
    (call.op = "_parse_exth_header" /\ call.done /\ call.s.exc = None)
        => \A i \in 1..Len(call.s.records) : call.s.records[i].length >= 8

\* struct.unpack of one big-endian unsigned field of `size` bytes at `off`:
\* the field's value, or none (-1) when raw[off:off+size] is short, which
\* makes the whole struct.unpack raise struct.error
RECURSIVE BigEndian(_)
BigEndian(b) == IF b = << >> THEN 0 ELSE BigEndian(SubSeq(b, 1, Len(b) - 1)) * 256 + b[Len(b)]
Field(raw, off, size) ==
    LET b == PySlice(raw, off, off + size) IN IF Len(b) = size THEN BigEndian(b) ELSE -1

\* what _parse_mobi_header returns (mobi.py:229-296): the header as the
\* processor reads it, or the exception that ended the call.  short is the
\* header of 16 bytes, which holds the PalmDOC fields and none of
\* text_encoding, fullname, locale and exth.
MobiHeader(short, header_length, text_encoding, fullname, locale, exth) ==
    [raised |-> None, short |-> short, header_length |-> header_length,
     text_encoding |-> text_encoding, fullname |-> fullname, locale |-> locale, exth |-> exth]
MobiFailed(exc) ==
    [raised |-> exc, short |-> FALSE, header_length |-> 0, text_encoding |-> 0,
     fullname |-> NoFullname, locale |-> 0, exth |-> NoExth]

\* a slice raw[fullname_offset:fullname_end] lies within a record of size
\* bytes when it ends at or before the last byte
FullnameFitsInclusive(fullname_end, size) == fullname_end <= size

\* mobi.py:290: if fullname_end < len(raw)
FullnameFits(fullname_end, size) == fullname_end < size

\* mobi.py:229-296
_parse_mobi_header(raw) ==
    IF Len(PySlice(raw, 0, 16)) # 16 THEN MobiFailed("struct.error")
    ELSE IF Len(raw) <= 16 THEN MobiHeader(TRUE, 0, 0, NoFullname, 0, NoExth)
    ELSE IF Len(PySlice(raw, 16, 132)) # 116 THEN MobiFailed("struct.error")
    ELSE LET header_length == Field(raw, 20, 4)
             text_encoding == Field(raw, 28, 4)
             fullname_offset == Field(raw, 84, 4)
             fullname_length == Field(raw, 88, 4)
             locale == Field(raw, 92, 4)
             exth_flags == Field(raw, 128, 4)
             fullname_end == fullname_offset + fullname_length
             fullname == IF FullnameFits(fullname_end, Len(raw))
                         THEN Fullname(PySlice(raw, fullname_offset, fullname_end))
                         ELSE NoFullname
         IN  IF header_length >= 228 /\ header_length <= 248 /\ Field(raw, 242, 2) = -1
             THEN MobiFailed("struct.error")
             ELSE IF (exth_flags \div 64) % 2 = 1
             THEN LET exth == _parse_exth_header(PyTail(raw, 16 + header_length))
                  IN  IF exth.exc # None THEN MobiFailed(exth.exc)
                      ELSE MobiHeader(FALSE, header_length, text_encoding, fullname, locale,
                                      Exth(exth.records))
             ELSE MobiHeader(FALSE, header_length, text_encoding, fullname, locale, NoExth)

\* The processor's texts are sequences of tokens; a byte string read from
\* the file is the sequence of the tokens of its bytes, a byte of no
\* interest being "?".
Chr ==
    (0 :> "\\x00") @@ (32 :> " ") @@ (35 :> "#") @@ (59 :> ";") @@ (70 :> "F")
        @@ (78 :> "N") @@ (97 :> "a") @@ (98 :> "b") @@ (129 :> "\\x81")
Text(bytes) == [k \in 1..Len(bytes) |-> IF bytes[k] \in DOMAIN Chr THEN Chr[bytes[k]] ELSE "?"]

\* A MOBI file as read_mobi_metadata sees it: the database name and
\* num_records of its PDB header and the bytes of record 0.
MobiFile(name, num_records, raw) == [name |-> name, num_records |-> num_records, raw |-> raw]

\* what read_mobi_metadata returns: the metadata the processor takes, or the
\* exception of the parse
ReadMobi(metadata) == [raised |-> None, metadata |-> metadata]
ReadMobiFailed(exc) == [raised |-> exc, metadata |-> NoMobi(<< >>)]

\* mobi.py:211-227, after read_pdb_metadata has filled metadata.pdb (the name
\* cleaned as in pdb.py:167)
read_mobi_metadata(file) ==
    LET name == Text(file.name)
    IN  IF file.num_records < 2 THEN ReadMobi(NoMobi(name))
        ELSE LET h == _parse_mobi_header(file.raw)
                 TextOf(r) == [type |-> r.type, data |-> Text(r.data)]
                 records == [k \in 1..Len(h.exth.records) |-> TextOf(h.exth.records[k])]
             IN  IF h.raised # None THEN ReadMobiFailed(h.raised)
                 ELSE IF h.short THEN ReadMobi(ShortMobi(name))
                 ELSE ReadMobi(Mobi(name, h.text_encoding,
                                    IF h.fullname.present THEN Fullname(Text(h.fullname.data))
                                    ELSE NoFullname,
                                    h.locale,
                                    IF h.exth.present THEN Exth(records) ELSE NoExth))

\* parsers/__init__.py:50-51 for a file identified as MOBI:
\* parser.processor(parser.reader(filename)), read being what the reader
\* returned or raised
read_processed_mobi(read, language, setorder) ==
    IF read.raised # None THEN ProcessFailed(read.raised, << >>)
    ELSE process_mobi_metadata(read.metadata, language, setorder)

Zeros(n) == [k \in 1..n |-> 0]

\* record 0 of a MOBI file, laid out as mobi.py:232-287 reads it: the 16
\* PalmDOC bytes, "MOBI", header_length at 0x14, text_encoding at 0x1c,
\* fullname_offset, fullname_length and locale at 0x54, 0x58 and 0x5c,
\* exth_flags at 0x80, zeros up to 16 + header_length, then the EXTH block,
\* the full name and the bytes after it
Record0(header_length, text_encoding, fullname_offset, fullname_length, locale, exth_flags, rest) ==
    Zeros(16) \o <<77, 79, 66, 73>> \o Packed32(header_length) \o Packed32(2)
        \o Packed32(text_encoding) \o Zeros(52)
        \o Packed32(fullname_offset) \o Packed32(fullname_length) \o Packed32(locale)
        \o Zeros(32) \o Packed32(exth_flags) \o Zeros(header_length - 116) \o rest

\* the EXTH blocks of the files: one tag record "b;a", and one publisher
\* record of length 0
ExthBlocks ==
    { <<69, 88, 84, 72>> \o Packed32(12) \o Packed32(1)
          \o Packed32(105) \o Packed32(11) \o <<98, 59, 97>>,
      <<69, 88, 84, 72>> \o Packed32(12) \o Packed32(1) \o Packed32(101) \o Packed32(0) }

\* how many bytes follow the full name in record 0
MaxTrailing == 1

\* the records 0 tried: both header lengths (the longer one has extra_flags),
\* both code pages, with and without EXTH, the full name "F\x81" followed by
\* 0 to MaxTrailing bytes or announced one byte longer than the record holds
Records0 ==
    { Record0(hl, enc, 16 + hl + Len(x.bytes), 2 + over, 9, x.flags,
              x.bytes \o <<70, 129>> \o Zeros(trailing)) :
        hl \in {116, 232}, enc \in {1252, 65001},
        x \in { [flags |-> 0, bytes |-> << >>] } \cup { [flags |-> 64, bytes |-> b] : b \in ExthBlocks },
        over \in {0, 1}, trailing \in 0..MaxTrailing }

\* the files: each record 0 whole and cut to 8, 16, 17, 131 and 243 bytes,
\* in a database of one record or two
MobiFiles ==
    { MobiFile(<<78, 0, 35, 35>>, n, PySlice(raw, 0, cut)) :
        n \in {1, 2}, raw \in Records0, cut \in {8, 16, 17, 131, 243, 4096} }

\* parsers/__init__.py:44-51 on a MOBI file; one file per behaviour
ReadProcessedMobi ==
    /\ call = NoCall
    /\ \E order \in MobiOrders :
          \E language \in { mobi2iana_language(order, 9) } :
             \E setorder \in SetOrders, file \in MobiFiles :
                \E read \in { read_mobi_metadata(file) } :
                   \E result \in { read_processed_mobi(read, language, setorder) } :
                      /\ ebook' = result.ebook
                      /\ call' = [op |-> "read_processed_metadata", file |-> file,
                                  read |-> read, raised |-> result.raised]
    /\ UNCHANGED <<extra_pluggables, builtin_pluggables, max_data_buffer_size, history>>

NextReadMobi == ReadProcessedMobi
SpecReadMobi == Init /\ [][NextReadMobi]_vars

\* C21: for a MOBI file with at least two PDB records whose record 0 holds
\* 16 bytes or fewer, read_processed_metadata completes without error and
\* the title of the record it returns is the sanitized database name.
C21_TruncatedRecovery ==
    (call.op = "read_processed_metadata" /\ call.file.num_records >= 2 /\ Len(call.file.raw) <= 16)
        => /\ call.raised = None
           /\ call.read.raised = None
           /\ "title" \in DOMAIN ebook
           /\ ebook["title"] = SanitizedName(Text(call.file.name))

\* the record 0 of the last call was parsed past its first 16 bytes
HeaderParsed ==
    /\ call.op = "read_processed_metadata"
    /\ call.read.raised = None
    /\ call.read.metadata.mobi
    /\ ~call.read.metadata.short

\* C25: the full name is resolved to raw[fullname_offset:fullname_offset +
\* fullname_length] exactly when fullname_offset + fullname_length <=
\* len(record 0), the slice that ends at the last byte of the record
\* included; otherwise the header has no full name.
C25_FullnameWhenFits ==
    HeaderParsed =>
        LET raw == call.file.raw
            fullname_offset == Field(raw, 84, 4)
            fullname_end == fullname_offset + Field(raw, 88, 4)
            fullname == call.read.metadata.fullname
        IN  IF FullnameFitsInclusive(fullname_end, Len(raw))
            THEN fullname.present /\ fullname.data = Text(PySlice(raw, fullname_offset, fullname_end))
            ELSE ~fullname.present

\* ------------------------------------------------------------ one program run

\* programs a caller may build (identifiers/__init__.py:157-201 accepts any
\* integer offset and any string offset that begins with '+' or '-'):
\*   a literal at a relative offset as the first rule,
\*   a literal at a relative offset that resolves below 0,
\*   a literal at a negative integer offset,
\*   a regex window, then a literal at a relative offset
RelativeFirst == ib(<<StringRule(StrOff("+", 1), <<80>>)>>)
RelativeBack == ib(<<StringRule(IntOff(0), <<80>>), StringRule(StrOff("-", 2), <<60>>)>>)
NegativeInt == ib(<<StringRule(IntOff(-2), <<80>>)>>)
RegexThenRelative ==
    it(<<RegexRule(IntOff(0), Window, [pre |-> <<80>>, notc |-> 60, post |-> << >>]),
         StringRule(StrOff("+", 0), <<60>>)>>)

\* the programs run: those of the start-up table and the caller's
RulePrograms ==
    { BuiltinIdentifiers[k].pluggable : k \in 1..Len(BuiltinIdentifiers) }
        \cup UserIdentifiers
        \cup {RelativeFirst, RelativeBack, NegativeInt, RegexThenRelative}

\* the buffers a program is run on: long enough to hold the byte after the
\* literal that follows the MKV program's search window
RuleBuffers == UNION { [1..n -> Alphabet] : n \in 0..(Window + 3) }

\* identifiers/__init__.py:77-80: test_identifier_rules is entered with the
\* program of a candidate; data is the prefix identify_stream read, the stream
\* standing at its end
TestIdentifierRules ==
    /\ call = NoCall
    /\ \E ident \in RulePrograms, data \in RuleBuffers :
          \E sizes \in { _calc_identifier_sizes(ident) } :
             call' = [op |-> "test_identifier_rules", ident |-> ident, data |-> data,
                      pos |-> Len(data), max_size |-> sizes.max_size,
                      i |-> 1, bound |-> FALSE, current_pos |-> 0, turns |-> << >>,
                      res |-> IF sizes.raised THEN "raise"
                              ELSE IF Len(data) < sizes.min_size THEN "False"
                              ELSE "running",
                      exc |-> IF sizes.raised THEN "UnboundLocalError" ELSE ""]
    /\ UNCHANGED <<extra_pluggables, builtin_pluggables, max_data_buffer_size, history, ebook>>

RulesRunning == call.op = "test_identifier_rules" /\ call.res = "running"

\* identifiers/__init__.py:82-123: one turn of the loop over ident.rules
RuleTurnTaken ==
    /\ RulesRunning
    /\ call.i <= Len(call.ident.rules)
    /\ \E t \in { RuleTurn(call.ident.rules[call.i], call.data, call.data, call.pos,
                           call.bound, call.current_pos) } :
          call' = [call EXCEPT !.turns = Append(@, t),
                               !.pos = t.pos,
                               !.i = IF t.res = "next" THEN @ + 1 ELSE @,
                               !.bound = IF t.res = "next" THEN TRUE ELSE @,
                               !.current_pos = t.current_pos,
                               !.res = IF t.res = "next" THEN @ ELSE t.res,
                               !.exc = t.exc]
    /\ UNCHANGED <<extra_pluggables, builtin_pluggables, max_data_buffer_size, history, ebook>>

\* identifiers/__init__.py:125: return True
RulesReturn ==
    /\ RulesRunning
    /\ call.i > Len(call.ident.rules)
    /\ call' = [call EXCEPT !.res = "True"]
    /\ UNCHANGED <<extra_pluggables, builtin_pluggables, max_data_buffer_size, history, ebook>>

NextRules == TestIdentifierRules \/ RuleTurnTaken \/ RulesReturn
SpecRules == Init /\ [][NextRules]_vars

\* the run of the last call is over
RulesDone == call.op = "test_identifier_rules" /\ call.res # "running"

\* the turns of the loop end as the loop of test_identifier_rules does
TurnsAgree ==
    RulesDone /\ call.turns # << >> =>
        LET r == test_identifier_rules(call.ident, call.data, call.data, Len(call.data))
        IN  r.res = call.res /\ r.exc = call.exc /\ r.pos = call.pos

\* C22: a program is run with a cursor that starts at zero: when its first
\* rule has the relative offset "+n", the first turn of the loop resolves
\* that offset to n.
C22_ZeroCursor ==
    (call.op = "test_identifier_rules" /\ call.ident.rules[1].off.rel = "+" /\ call.i = 1
        /\ (call.turns # << >> \/ call.res = "raise"))
        => /\ call.turns # << >>
           /\ call.turns[1].resolved
           /\ call.turns[1].off = call.ident.rules[1].off.n

\* C23: in a run that ends in a match every resolved offset and every cursor
\* value is at least 0, and a turn whose resolved offset is negative ends the
\* run with an error.
C23_NonNegative ==
    call.op = "test_identifier_rules" =>
        \A k \in 1..Len(call.turns) :
            LET t == call.turns[k]
            IN  /\ (t.resolved /\ t.off < 0) => t.res = "raise"
                /\ call.res = "True" => (t.off >= 0 /\ t.current_pos >= 0)

\* C24: no rule of a program of string, struct, search and regex rules takes
\* a byte of the buffer at an index that max_size, computed when the program
\* was built, does not cover.
C24_MaxSizeCovers ==
    call.op = "test_identifier_rules" =>
        \A k \in 1..Len(call.turns) :
            LET t == call.turns[k]
            IN  (t.resolved /\ call.ident.rules[k].typ # "func")
                    => Min(t.hi, Len(call.data)) <= call.max_size

\* ------------------------------------------------------------ text classifier runs

\* the longest buffer classified
MaxBuffer == 4

\* the bytes of the buffers: a control character (0x00), a letter, DEL, two
\* continuation bytes (0x80, and 0x85 which text_chars lists as text), the
\* leads of a 2-, 3- and 4-byte sequence, and 0xFE
TextBytes == {0, 80, 127, 128, 133, 194, 226, 240, 254}
TextBuffers == UNION { [1..n -> TextBytes] : n \in 0..MaxBuffer }

\* text.py:67-122: looks_like_utf8 and is_text on one buffer
LooksLikeUtf8 ==
    /\ call = NoCall
    /\ \E buffer \in TextBuffers :
          call' = [op |-> "looks_like_utf8", buffer |-> buffer,
                   result |-> looks_like_utf8(buffer), is_text |-> is_text(buffer)]
    /\ UNCHANGED <<extra_pluggables, builtin_pluggables, max_data_buffer_size, history, ebook>>

NextText == LooksLikeUtf8
SpecText == Init /\ [][NextText]_vars

\* UTF-8 by value: a continuation byte is 10xxxxxx, and a lead byte
\* announces the continuation bytes that follow it (0xFE and 0xFF none)
IsContinuation(c) == c >= 128 /\ c < 192
Announced(c) ==
    IF c < 224 THEN 1 ELSE IF c < 240 THEN 2 ELSE IF c < 248 THEN 3
    ELSE IF c < 252 THEN 4 ELSE IF c < 254 THEN 5 ELSE -1

\* what stands at index i of a buffer: a 7-bit byte of category 1 ("text") or
\* of another category ("control"), a complete multibyte sequence
\* ("sequence"), a sequence the end of the buffer cuts ("truncated"), or
\* bytes that are not UTF-8 ("invalid")
TokenAt(buffer, i) ==
    LET c == buffer[i + 1]
        present == Min(Announced(c), Len(buffer) - i - 1)
    IN  IF c < 128 THEN (IF text_chars(c) = 1 THEN "text" ELSE "control")
        ELSE IF c < 192 \/ c >= 254 THEN "invalid"
        ELSE IF \E k \in 1..present : ~IsContinuation(buffer[i + 1 + k]) THEN "invalid"
        ELSE IF present < Announced(c) THEN "truncated"
        ELSE "sequence"

\* the level of a buffer read token by token from index i
RECURSIVE Utf8Level(_, _, _)
Utf8Level(buffer, i, level) ==
    IF i >= Len(buffer) THEN level
    ELSE LET token == TokenAt(buffer, i)
         IN  CASE token = "text" -> Utf8Level(buffer, i + 1, level)
               [] token = "sequence" -> Utf8Level(buffer, i + 1 + Announced(buffer[i + 1]), 2)
               [] token = "control" -> 0
               [] token = "invalid" -> -1
               [] token = "truncated" -> level

\* C28: looks_like_utf8 returns -1 at bytes that are not UTF-8, 0 at a 7-bit
\* byte of a category other than 1, 1 for a buffer (the empty one included)
\* of 7-bit text, 2 once a complete multibyte sequence was seen, and the
\* level seen so far for a buffer that ends inside a sequence; is_text holds
\* exactly when the result is above 0.
C28_Utf8Levels ==
    call.op = "looks_like_utf8" =>
        /\ call.result = Utf8Level(call.buffer, 0, 1)
        /\ call.is_text <=> call.result > 0

\* a buffer that ends inside its second sequence is UTF-8 text
C28_Witness ==
    /\ call.op = "looks_like_utf8"
    /\ call.buffer = <<194, 128, 226, 128>>
    /\ call.result = 2
    /\ call.is_text

\* ------------------------------------------------------------ language regions

\* C29: mobi2iana_language returns a tag "xx-yy" only when the table holds
\* region YY under language xx with exactly the language id and dialect id
\* the locale decodes to, and the tag it returns for a locale is the same
\* under every iteration order of the table.
C29_RegionOfOwnLanguage ==
    call.op = "mobi2iana_language" =>
        LET langcode == call.mobi_locale % 256
            sublangcode == (call.mobi_locale \div 1024) % 256
            tag == call.result.value
        IN  /\ Len(tag) = 2 =>
                  \E row \in TableRows :
                     /\ row.code = tag[1]
                     /\ row.subcode # None /\ Lower(row.subcode) = tag[2]
                     /\ row.cc = langcode /\ row.cl = sublangcode
            /\ tag = mobi2iana_language(Order(0, FALSE, FALSE), call.mobi_locale)

\* ------------------------------------------------------------ read_metadata

\* a parsers/__init__.py read that returned: None, or what the reader or the
\* processor named handed back
Read(value) == [kind |-> "return", exc |-> "", value |-> value]

\* the tag a read works with: the one the caller passed, else the one
\* identify_file returns (parsers/__init__.py:37 and 45-46)
FileType(extra, builtin, size, file, filetype) ==
    IF filetype # None THEN Returned(filetype, 0, << >>)
    ELSE identify_stream(extra, builtin, size, file)

\* parsers/__init__.py:36-42, identified being what identify_file ended with
\* and found what find_parser handed back.  identify_file's exception passes
\* through; find_parser hands back None for a type with no parser and a list
\* for a chain, and parser.reader on either is an AttributeError.
read_metadata(identified, found) ==
    IF identified.kind = "raise" THEN Failed(identified.exc)
    ELSE IF identified.value = None THEN Read(None)
    ELSE IF ~found.found \/ found.chained THEN Failed("AttributeError")
    ELSE Read(found.items[1].reader)

\* parsers/__init__.py:44-51.  parser.processor is looked up, the reader is
\* called, and calling a processor that is None is a TypeError.
read_processed_metadata(identified, found) ==
    IF identified.kind = "raise" THEN Failed(identified.exc)
    ELSE IF identified.value = None THEN Read(None)
    ELSE IF ~found.found \/ found.chained THEN Failed("AttributeError")
    ELSE IF found.items[1].processor = None THEN Failed("TypeError")
    ELSE Read(found.items[1].processor)

\* the tags a caller passes to read_processed_metadata: none, a tag with a
\* parser and a processor, one whose parser has no processor, one with no
\* parser
PassedTypes == {None, "MOBI", "OPF2", "PDF"}

\* parsers/__init__.py:36; one read per behaviour
ReadMetadata ==
    /\ call = NoCall
    /\ \E file \in Files :
          \E identified \in { FileType(extra_pluggables, builtin_pluggables,
                                       max_data_buffer_size, file, None) } :
             \E found \in { find_pluggable(extra_pluggables, builtin_pluggables,
                                            PARSERS, identified.value) } :
                call' = [op |-> "read_metadata", file |-> file, filetype |-> None,
                         identified |-> identified, found |-> found,
                         result |-> read_metadata(identified, found)]
    /\ UNCHANGED <<extra_pluggables, builtin_pluggables, max_data_buffer_size, history, ebook>>

\* parsers/__init__.py:44; one read per behaviour
ReadProcessedMetadata ==
    /\ call = NoCall
    /\ \E file \in Files, filetype \in PassedTypes :
          \E identified \in { FileType(extra_pluggables, builtin_pluggables,
                                       max_data_buffer_size, file, filetype) } :
             \E found \in { find_pluggable(extra_pluggables, builtin_pluggables,
                                            PARSERS, identified.value) } :
                call' = [op |-> "read_processed_metadata", file |-> file, filetype |-> filetype,
                         identified |-> identified, found |-> found,
                         result |-> read_processed_metadata(identified, found)]
    /\ UNCHANGED <<extra_pluggables, builtin_pluggables, max_data_buffer_size, history, ebook>>

NextRead == ReadMetadata \/ ReadProcessedMetadata
SpecRead == Init /\ [][NextRead]_vars

\* C30: read_metadata and read_processed_metadata do not fail for want of a
\* parser or a processor: for a file of a type with no registered parser, and
\* for read_processed_metadata on a type whose parser has no processor, they
\* return None or a record.
C30_MissingParserTolerated ==
    (/\ call.op \in {"read_metadata", "read_processed_metadata"}
     /\ call.identified.kind = "return"
     /\ call.identified.value # None
     /\ \/ ~call.found.found
        \/ /\ call.op = "read_processed_metadata"
           /\ call.found.found /\ ~call.found.chained
           /\ call.found.items[1].processor = None)
        => call.result.kind = "return"
====
